---- MODULE Spec2Model ----
(***************************************************************************)
(* Model of the NZB Info status client (uc_intg_nzbinfo/client.py): the    *)
(* per-application status records, the connectivity probe (connect), the   *)
(* concurrent poll cycle (update_all_statuses and its per-application      *)
(* tasks, interleaved at their HTTP suspension points) and disconnect.     *)
(***************************************************************************)
EXTENDS Integers, Sequences, FiniteSets, TLC

\* ------------------------------------------------------------------ bounds
MaxEnabled == 2      \* largest number of enabled applications in a configuration
MaxOps == 3          \* calls of connect and update_all_statuses in one behaviour
MaxTasks == 4        \* tasks created by update_all_statuses in one behaviour
MaxCycles == 4       \* cycles of the monitoring loop in one behaviour
MaxClients == 3      \* clients created by the driver in one behaviour
MaxFlows == 1        \* setup requests handled in one behaviour

\* ------------------------------------------------------------ applications
Apps == {"sabnzbd", "nzbget", "sonarr", "radarr", "lidarr", "readarr", "bazarr", "overseerr"}

MediaManagers == {"sonarr", "radarr", "lidarr", "readarr"}

\* A name of the enabled list that is none of the eight kinds (the enabled
\* list is read from config.json as it is).
UnknownApp == "custom"

AppNames == Apps \cup {UnknownApp}

\* The order of the enabled list (the order of APP_INFO, in which setup
\* appends the enabled applications).
AppOrder == <<"sabnzbd", "nzbget", "sonarr", "radarr", "lidarr", "readarr", "bazarr", "overseerr", "custom">>

RECURSIVE OrderedFrom(_, _)
OrderedFrom(S, i) ==
    IF i > Len(AppOrder) THEN <<>>
    ELSE IF AppOrder[i] \in S THEN <<AppOrder[i]>> \o OrderedFrom(S, i + 1)
    ELSE OrderedFrom(S, i + 1)

Ordered(S) == OrderedFrom(S, 1)

\* ------------------------------------------------------------ HTTP results
\* What one HTTP call can come to:
\*   timeout    the call raises asyncio.TimeoutError, whose text is empty
\*   refused    the call raises a connection error with a text
\*   closed     the call raises because the session was closed or is None
\*   http401, http500   a response with that status
\*   html       status 200, content type text/html (its body is no JSON)
\*   malformed  status 200, JSON whose fields have the wrong types
\*   empty, one, many   status 200, well-formed JSON with 0, 1, 2 or more items
Exceptions == {"timeout", "refused", "closed"}

Responses == {"timeout", "refused", "http401", "http500", "html", "malformed", "empty", "one", "many"}

HttpStatus(o) ==
    CASE o = "http401" -> 401
      [] o = "http500" -> 500
      [] o \in {"html", "malformed", "empty", "one", "many"} -> 200
      [] OTHER -> 0

\* str(ex)[:50] of the exception a call raised (all texts here are shorter
\* than 50 characters; asyncio.TimeoutError() has the empty text).
ExcText(o) ==
    CASE o = "timeout" -> ""
      [] o = "refused" -> "Cannot connect to host"
      [] o = "closed" -> "Session is closed"
      [] o = "html" -> "Attempt to decode JSON with unexpected mimetype"
      [] OTHER -> "object has no attribute"

HttpText(o) == IF o = "http401" THEN "HTTP 401" ELSE "HTTP 500"

\* ----------------------------------------------------------------- records
Fields == {"is_online", "title", "primary_info", "secondary_info", "last_updated", "raw_data"}

\* str.title() of the application name
TitleCase(app) ==
    CASE app = "sabnzbd" -> "Sabnzbd"
      [] app = "nzbget" -> "Nzbget"
      [] app = "sonarr" -> "Sonarr"
      [] app = "radarr" -> "Radarr"
      [] app = "lidarr" -> "Lidarr"
      [] app = "readarr" -> "Readarr"
      [] app = "bazarr" -> "Bazarr"
      [] app = "overseerr" -> "Overseerr"
      [] OTHER -> "Custom"

AppStatus(app, now) ==
    [is_online |-> FALSE,
     title |-> TitleCase(app),
     primary_info |-> "Offline",
     secondary_info |-> "Not connected",
     last_updated |-> now,
     raw_data |-> "{}"]

VARIABLES
    config,        \* NZBInfoConfig: enabled_apps, and hosts = the applications whose configuration has a host
    session,       \* NZBInfoClient._session: "none" or "open"
    app_statuses,  \* NZBInfoClient._app_statuses: application name -> AppStatus
    is_connected,  \* NZBInfoClient._is_connected
    conn,          \* the frame of the connect call: its position, the applications still to probe, success_count
    poll,          \* the frame of the update_all_statuses call: its position, its tasks and its result
    clock,         \* time.time(), advanced at the start of every connect and poll (which bounds the behaviour)
    log,           \* the requests issued so far, as <<issuer, endpoint>> pairs
    created,       \* tasks created so far (bounds the behaviour)
    monitor,       \* driver._monitoring_task: the task that runs NZBInfoPlayer.run_monitoring
    driver,        \* the driver module: its _client and every client it has created
    setup,         \* the setup flow (NZBInfoSetup): its position, what it keeps, what it saved
    call           \* the frame of a call from outside the client (a formatting helper, the handler
                   \* of a command): the function, its arguments, its result

\* the variables of one NZBInfoClient
clientVars == <<config, session, app_statuses, is_connected, conn, poll, clock, log, created>>

vars == <<config, session, app_statuses, is_connected, conn, poll, clock, log, created,
          monitor, driver, setup, call>>

\* ------------------------------------------------- display strings
\* _format_recent_files on a list of n well-formed names (files[:2])
FormatRecentFiles(n) ==
    IF n = 0 THEN "No recent activity"
    ELSE IF n = 1 THEN "Recent: a"
    ELSE "Recent: a | b"

\* number of items of a well-formed 200 response
Items(o) == CASE o = "one" -> 1 [] o = "many" -> 2 [] OTHER -> 0

\* title written on the success path of each kind
SuccessTitle(app) ==
    CASE app = "sabnzbd" -> "SABnzbd"
      [] app = "nzbget" -> "NZBget"
      [] app = "bazarr" -> "Bazarr"
      [] app = "overseerr" -> "Overseerr"
      [] OTHER -> TitleCase(app)

\* ------------------------------------------------- one segment of a task
\* What a task does between two suspension points: the record as it leaves
\* it (st), where it suspends next (pc, "done" when it returned or raised),
\* its return value (ret), the fields it assigned (wrote), whether an
\* exception left the per-kind function (raised, with its text exc), and the
\* bazarr task's recent_downloads (recent items, poison = an item that is
\* no string).
Seg(st, pc, ret, wrote, recent, poison) ==
    [st |-> st, pc |-> pc, ret |-> ret, wrote |-> wrote, raised |-> FALSE, exc |-> "",
     recent |-> recent, poison |-> poison]

Raised(st, wrote, exc) ==
    [st |-> st, pc |-> "done", ret |-> "-", wrote |-> wrote, raised |-> TRUE, exc |-> exc,
     recent |-> 0, poison |-> FALSE]

\* A faulty variant of ConnectionError, whose primary line tells a timeout
\* from the other exceptions.
ConnectionErrorNamesTimeout(st, text) ==
    Seg([st EXCEPT !.is_online = FALSE,
                   !.primary_info = IF text = "" THEN "Timed out" ELSE "Connection Error",
                   !.secondary_info = text],
        "done", "False", {"is_online", "primary_info", "secondary_info"}, 0, FALSE)

\* the "except Exception as ex" arm of a per-kind function
ConnectionError(st, text) ==
    Seg([st EXCEPT !.is_online = FALSE, !.primary_info = "Connection Error", !.secondary_info = text],
        "done", "False", {"is_online", "primary_info", "secondary_info"}, 0, FALSE)

\* A faulty variant of ApiError, which leaves the secondary line as it was.
ApiErrorKeepsDetail(st, o) ==
    Seg([st EXCEPT !.is_online = FALSE, !.primary_info = "API Error"],
        "done", "False", {"is_online", "primary_info"}, 0, FALSE)

\* the "else" arm of "if response.status == 200"
ApiError(st, o) ==
    Seg([st EXCEPT !.is_online = FALSE, !.primary_info = "API Error", !.secondary_info = HttpText(o)],
        "done", "False", {"is_online", "primary_info", "secondary_info"}, 0, FALSE)

\* _update_sabnzbd_2row and _update_nzbget_2row, on the response of the
\* queue (status) call
DownloaderPrimary(app, st, o) ==
    IF o \in Exceptions \/ o = "html" THEN ConnectionError(st, ExcText(o))
    ELSE IF HttpStatus(o) # 200 THEN ApiError(st, o)
    ELSE IF o = "malformed"
    THEN [ConnectionError([st EXCEPT !.title = SuccessTitle(app)], ExcText(o))
            EXCEPT !.wrote = {"is_online", "title", "primary_info", "secondary_info"}]
    ELSE Seg([st EXCEPT !.is_online = TRUE,
                        !.title = SuccessTitle(app),
                        !.primary_info = IF Items(o) = 0 THEN "Queue idle"
                                         ELSE IF app = "sabnzbd" THEN "Downloading: job @ 5 MB/s (1m)"
                                         ELSE "Downloading @ 5.0 MB/s (1m)"],
             "history", "-", {"is_online", "title", "primary_info"}, 0, FALSE)

\* the same two functions, on the response of the history call
DownloaderSecondary(app, st, o, now) ==
    Seg([st EXCEPT !.secondary_info = IF o \in {"one", "many"} THEN FormatRecentFiles(Items(o))
                                      ELSE "No recent activity",
                   !.raw_data = IF app = "sabnzbd" THEN "{queue_count, speed}"
                                ELSE "{download_rate, remaining_mb}",
                   !.last_updated = now],
        "done", "True", {"secondary_info", "raw_data", "last_updated"}, 0, FALSE)

\* _update_media_manager_2row up to the calendar call
MediaManagerStart(app, st) ==
    Seg([st EXCEPT !.is_online = TRUE, !.title = TitleCase(app)],
        "calendar", "-", {"is_online", "title"}, 0, FALSE)

\* _get_upcoming_content, on the response of the calendar call
GetUpcomingContent(app, st, o) ==
    Seg([st EXCEPT !.primary_info =
            IF o \in Exceptions \/ o \in {"html", "malformed"} THEN "No upcoming data"
            ELSE IF HttpStatus(o) # 200 THEN "Calendar unavailable"
            ELSE IF Items(o) = 0 THEN "No upcoming releases"
            ELSE "Next: title (Today)"],
        "history", "-", {"primary_info"}, 0, FALSE)

\* A faulty variant of GetRecentActivity, in which a failed history call
\* marks the application offline.
GetRecentActivityOffline(app, st, o, now) ==
    IF o \in Exceptions \/ HttpStatus(o) # 200
    THEN ConnectionError(st, ExcText(o))
    ELSE Seg([st EXCEPT !.secondary_info = FormatRecentFiles(Items(o)), !.last_updated = now],
             "done", "True", {"secondary_info", "last_updated"}, 0, FALSE)

\* _get_recent_activity, on the response of the history call, and the end
\* of _update_media_manager_2row
GetRecentActivity(app, st, o, now) ==
    Seg([st EXCEPT !.secondary_info =
            IF o \in Exceptions \/ o \in {"html", "malformed"} THEN "No recent activity"
            ELSE IF HttpStatus(o) # 200 THEN "History unavailable"
            ELSE FormatRecentFiles(Items(o)),
                   !.last_updated = now],
        "done", "True", {"secondary_info", "last_updated"}, 0, FALSE)

\* _update_bazarr_2row up to the probe of /api/system/status
BazarrStart(st) ==
    Seg([st EXCEPT !.is_online = TRUE, !.title = "Bazarr"],
        "probe", "-", {"is_online", "title"}, 0, FALSE)

\* A faulty variant of BazarrProbe, which takes the backend offline on the
\* HTML answer too.
BazarrProbeOffline(st, o) ==
    IF o \in Exceptions THEN ConnectionError(st, ExcText(o))
    ELSE IF HttpStatus(o) # 200
    THEN Seg([st EXCEPT !.is_online = FALSE, !.primary_info = "Connection Error",
                        !.secondary_info = HttpText(o)],
             "done", "False", {"is_online", "primary_info", "secondary_info"}, 0, FALSE)
    ELSE IF o = "html"
    THEN Seg([st EXCEPT !.is_online = FALSE, !.primary_info = "Authentication Error",
                        !.secondary_info = "Check API key configuration"],
             "done", "False", {"is_online", "primary_info", "secondary_info"}, 0, FALSE)
    ELSE Seg(st, "episodes", "-", {}, 0, FALSE)

\* _update_bazarr_2row, on the response of the probe
BazarrProbe(st, o) ==
    IF o \in Exceptions THEN ConnectionError(st, ExcText(o))
    ELSE IF HttpStatus(o) # 200
    THEN Seg([st EXCEPT !.is_online = FALSE, !.primary_info = "Connection Error",
                        !.secondary_info = HttpText(o)],
             "done", "False", {"is_online", "primary_info", "secondary_info"}, 0, FALSE)
    ELSE IF o = "html"
    THEN Seg([st EXCEPT !.primary_info = "Authentication Error",
                        !.secondary_info = "Check API key configuration"],
             "done", "False", {"primary_info", "secondary_info"}, 0, FALSE)
    ELSE Seg(st, "episodes", "-", {}, 0, FALSE)

\* the end of _update_bazarr_2row, after the history calls
BazarrFinish(st, recent, poison, now) ==
    IF poison
    THEN Raised([st EXCEPT !.primary_info = "Subtitle downloads active"], {"primary_info"},
                ExcText("malformed"))
    ELSE Seg([st EXCEPT !.primary_info = IF recent > 0 THEN "Subtitle downloads active"
                                         ELSE "Subtitle manager idle",
                        !.secondary_info = IF recent > 0 THEN FormatRecentFiles(recent)
                                           ELSE "No recent downloads",
                        !.raw_data = "{recent_count}",
                        !.last_updated = now],
             "done", "True", {"primary_info", "secondary_info", "raw_data", "last_updated"},
             recent, FALSE)

\* _update_bazarr_2row, on the response of the episodes history call
BazarrEpisodes(st, o, now) ==
    LET recent == IF o = "malformed" THEN 1 ELSE Items(o)
        poison == (o = "malformed")
    IN  IF recent < 2 THEN Seg(st, "movies", "-", {}, recent, poison)
        ELSE BazarrFinish(st, recent, poison, now)

\* _update_bazarr_2row, on the response of the movies history call (the
\* loop stops at two collected items)
BazarrMovies(st, o, recent, poison, now) ==
    LET more == IF o = "malformed" THEN 1 ELSE Items(o)
        total == IF recent + more > 2 THEN 2 ELSE recent + more
    IN  BazarrFinish(st, total, poison \/ o = "malformed", now)

\* _update_overseerr_2row, on the response of the requests call
OverseerrRequests(st, o, now) ==
    IF o \in Exceptions \/ o = "html" THEN ConnectionError(st, ExcText(o))
    ELSE IF HttpStatus(o) # 200 THEN ApiError(st, o)
    ELSE IF o = "malformed"
    THEN [ConnectionError([st EXCEPT !.title = "Overseerr"], ExcText(o))
            EXCEPT !.wrote = {"is_online", "title", "primary_info", "secondary_info"}]
    ELSE Seg([st EXCEPT !.is_online = TRUE,
                        !.title = "Overseerr",
                        !.primary_info = IF Items(o) = 0 THEN "No pending requests"
                                         ELSE IF Items(o) = 1 THEN "1 pending requests"
                                         ELSE "2 pending requests",
                        !.secondary_info = IF Items(o) = 0 THEN "No recent requests"
                                           ELSE FormatRecentFiles(Items(o)),
                        !.raw_data = "{pending_count}",
                        !.last_updated = now],
             "done", "True", Fields, 0, FALSE)

\* A faulty variant of CatchAll, without the "except" arm.
CatchNone(seg) == seg

\* ------------------------------------------------------ _update_app_status
\* the "except Exception as ex" arm of _update_app_status: an exception that
\* left the per-kind function is turned into a record update and False
CatchAll(seg) ==
    IF seg.raised
    THEN [seg EXCEPT !.st = [seg.st EXCEPT !.is_online = FALSE,
                                           !.primary_info = "Connection Error",
                                           !.secondary_info = seg.exc],
                     !.ret = "False",
                     !.raised = FALSE,
                     !.wrote = seg.wrote \cup {"is_online", "primary_info", "secondary_info"}]
    ELSE seg

\* A faulty variant of UpdateAppStatusStart, which goes on to the requests of
\* an application that has no host.
UpdateAppStatusStartAnyHost(app, st, hosted) ==
    IF app \in {"sabnzbd", "nzbget"} THEN Seg(st, "queue", "-", {}, 0, FALSE)
    ELSE IF app \in MediaManagers THEN MediaManagerStart(app, st)
    ELSE IF app = "bazarr" THEN BazarrStart(st)
    ELSE IF app = "overseerr" THEN Seg(st, "requests", "-", {}, 0, FALSE)
    ELSE Seg(st, "done", "None", {}, 0, FALSE)

\* _update_app_status from its start to its first HTTP call: st is the
\* record of the application (a task without one returns False at once, see
\* StartTasks), hosted whether its configuration has a host
UpdateAppStatusStart(app, st, hosted) ==
    IF ~hosted
    THEN Seg([st EXCEPT !.is_online = FALSE, !.primary_info = "Not configured",
                        !.secondary_info = "Missing configuration"],
             "done", "False", {"is_online", "primary_info", "secondary_info"}, 0, FALSE)
    ELSE IF app \in {"sabnzbd", "nzbget"} THEN Seg(st, "queue", "-", {}, 0, FALSE)
    ELSE IF app \in MediaManagers THEN MediaManagerStart(app, st)
    ELSE IF app = "bazarr" THEN BazarrStart(st)
    ELSE IF app = "overseerr" THEN Seg(st, "requests", "-", {}, 0, FALSE)
    ELSE Seg(st, "done", "None", {}, 0, FALSE)

\* _update_app_status resumed at the response o of the call it waits for
UpdateAppStatusResume(app, pc, st, o, recent, poison, now) ==
    CatchAll(
        CASE pc = "queue" -> DownloaderPrimary(app, st, o)
          [] pc = "history" /\ app \in MediaManagers -> GetRecentActivity(app, st, o, now)
          [] pc = "history" /\ app \notin MediaManagers -> DownloaderSecondary(app, st, o, now)
          [] pc = "calendar" -> GetUpcomingContent(app, st, o)
          [] pc = "probe" -> BazarrProbe(st, o)
          [] pc = "episodes" -> BazarrEpisodes(st, o, now)
          [] pc = "movies" -> BazarrMovies(st, o, recent, poison, now)
          [] pc = "requests" -> OverseerrRequests(st, o, now))

\* the endpoint class of the call a task waits for: bazarr's probe is its
\* health-check endpoint, every other call asks for status detail
Endpoint(pc) == IF pc = "probe" THEN "health" ELSE "detail"

\* a task object of update_all_statuses
NewTask == [pc |-> "created", ret |-> "-", seen |-> <<>>, wrote |-> {}, recent |-> 0, poison |-> FALSE]

\* a task after one more segment seg, which consumed the responses o (a
\* sequence of length 0 or 1)
TaskAfter(t, seg, o) ==
    [pc |-> seg.pc, ret |-> seg.ret, seen |-> t.seen \o o, wrote |-> t.wrote \cup seg.wrote,
     recent |-> seg.recent, poison |-> seg.poison]

\* A faulty variant of WriteStatus, in which the tasks share the online flag.
WriteStatusShared(statuses, app, st) ==
    [b \in DOMAIN statuses |->
        IF b = app THEN st ELSE [statuses[b] EXCEPT !.is_online = st.is_online]]

\* the assignment of a task's segment to the record object of its application
WriteStatus(statuses, app, st) == [statuses EXCEPT ![app] = st]

\* the responses a call can get: none but an exception once the session is gone
CallResponses(set) == IF session = "none" THEN {"closed"} ELSE set

\* the responses tried for each call of a poll: one of each class the code
\* tells apart at that call
PollResponses(app, pc) ==
    CASE pc = "probe" -> {"timeout", "refused", "http500", "html", "empty"}
      [] pc \in {"episodes", "movies"} -> {"timeout", "http500", "malformed", "empty", "one", "many"}
      [] pc \in {"history", "calendar"} -> {"timeout", "http500", "empty", "many"}
      [] OTHER -> {"timeout", "refused", "http500", "malformed", "empty", "many"}

HealthResponses == {"timeout", "refused", "http401", "http500", "empty"}

\* -------------------------------------------------------------- the client
\* The configurations tried: up to MaxEnabled applications enabled, which
\* follow one another in the enabled list's order, each with or without a
\* host in its configuration.
Window(i, n) == {AppOrder[j] : j \in i..(i + n - 1) \cap 1..Len(AppOrder)}

Windows == {Window(i, n) : i \in 1..Len(AppOrder), n \in 0..MaxEnabled}

Configs == UNION {{[enabled_apps |-> w, hosts |-> h] : h \in SUBSET w} : w \in Windows}

\* The frame of a call is kept after its return (pc = "returned", with the
\* value returned in result) until the next connect or poll starts.
NoConn == [pc |-> "idle", todo |-> <<>>, success_count |-> 0, probed |-> <<>>, result |-> "-"]

NoPoll == [pc |-> "idle", had_session |-> FALSE, tasks |-> <<>>, result |-> "-"]

Bool(b) == IF b THEN "True" ELSE "False"

\* no monitoring task has been created
NoMonitor == [pc |-> "none", cancel |-> FALSE, started |-> 0, done |-> <<>>, waits |-> <<>>]

\* the driver module as loaded: _client is None and no client was created
NoDriver == [client |-> 0, clients |-> <<>>, last |-> "-", disk |-> {}, player |-> 0,
             task |-> 0, tasks |-> <<>>]

\* no setup flow has been started, nothing was saved; pc is what the last
\* message came to ("confirm" while the setup manager waits for the
\* confirmation, any other value when setup_handler has dropped the manager)
NoSetup == [pc |-> "idle", last |-> "-", flows |-> 0, writable |-> TRUE, request |-> <<>>, enabled_apps |-> <<>>,
            app_configs |-> <<>>, connection_results |-> <<>>,
            config |-> [enabled_apps |-> <<>>, applications |-> <<>>], saved |-> <<>>]

\* no helper has been called
NoCall == [fn |-> "-", args |-> <<>>, result |-> "-"]

\* NZBInfoClient.__init__ on a configuration read from disk
Init ==
    /\ config \in Configs
    /\ session = "none"
    /\ app_statuses = <<>>
    /\ is_connected = FALSE
    /\ conn = NoConn
    /\ poll = NoPoll
    /\ clock = 0
    /\ log = {}
    /\ created = 0
    /\ monitor = NoMonitor
    /\ driver = NoDriver
    /\ setup = NoSetup
    /\ call = NoCall

\* A faulty variant of Reachable, which takes 401 for unreachable.
ReachableOnlyOk(o) == HttpStatus(o) = 200

\* whether a health-check response counts as reachable
Reachable(o) == HttpStatus(o) \in {200, 401}

\* the record map after connect gave every enabled application a fresh record
FreshStatuses(statuses, enabled, now) ==
    [a \in DOMAIN statuses \cup enabled |->
        IF a \in enabled THEN AppStatus(a, now) ELSE statuses[a]]

\* the record map after the health check of application a created o
MarkOnline(statuses, a, o) == [statuses EXCEPT ![a].is_online = Reachable(o)]

\* connect, from its start to the first health check it waits for: the
\* session is created if there is none, every enabled application gets a
\* fresh record, and the applications without a host are passed over
\* (_test_app_connection returns False for them before any request)
ConnectStart ==
    /\ conn.pc # "testing"
    /\ poll.pc # "gather"
    /\ clock < MaxOps
    /\ clock' = clock + 1
    /\ session' = "open"
    /\ app_statuses' = FreshStatuses(app_statuses, config.enabled_apps, clock')
    /\ poll' = NoPoll
    /\ LET todo == Ordered(config.enabled_apps \cap config.hosts)
       IN  IF todo = <<>>
           THEN /\ is_connected' = FALSE
                /\ conn' = [NoConn EXCEPT !.pc = "returned", !.result = "False"]
                /\ log' = log
           ELSE /\ is_connected' = is_connected
                /\ conn' = [NoConn EXCEPT !.pc = "testing", !.todo = todo]
                /\ log' = log \cup {<<"connect", "health">>}
    /\ UNCHANGED <<config, created, monitor, driver, setup, call>>

\* connect resumed at the response o of the health check of the first
\* application still to probe (_test_app_connection), then on to the next
\* health check or to its return
ConnectStep ==
    /\ conn.pc = "testing"
    /\ \E o \in CallResponses(HealthResponses) :
         LET a == Head(conn.todo)
             n == conn.success_count + (IF Reachable(o) THEN 1 ELSE 0)
             probed == (a :> o) @@ conn.probed
         IN  /\ app_statuses' = MarkOnline(app_statuses, a, o)
             /\ IF Tail(conn.todo) = <<>>
                THEN /\ is_connected' = (n > 0)
                     /\ conn' = [pc |-> "returned", todo |-> <<>>, success_count |-> n,
                                 probed |-> probed, result |-> Bool(n > 0)]
                ELSE /\ is_connected' = is_connected
                     /\ conn' = [conn EXCEPT !.todo = Tail(conn.todo), !.success_count = n,
                                             !.probed = probed]
    /\ UNCHANGED <<config, session, poll, clock, log, created, monitor, driver, setup, call>>

\* disconnect: the session, if any, is closed and forgotten
Disconnect ==
    /\ session' = "none"
    /\ is_connected' = FALSE
    /\ UNCHANGED <<config, app_statuses, conn, poll, clock, log, created, monitor, driver, setup, call>>

\* the tasks of update_all_statuses, in the order of their creation, each
\* run from the start of _update_app_status to its first HTTP call (no
\* response is taken before every task has come that far): the record map
\* and the tasks after those of todo
RECURSIVE StartTasks(_, _, _)
StartTasks(todo, statuses, tasks) ==
    IF todo = <<>> THEN [statuses |-> statuses, tasks |-> tasks]
    ELSE LET a == Head(todo)
         IN  IF a \notin DOMAIN statuses
             THEN StartTasks(Tail(todo), statuses,
                             (a :> [NewTask EXCEPT !.pc = "done", !.ret = "False"]) @@ tasks)
             ELSE LET seg == UpdateAppStatusStart(a, statuses[a], a \in config.hosts)
                  IN  StartTasks(Tail(todo), WriteStatus(statuses, a, seg.st),
                                 (a :> TaskAfter(NewTask, seg, <<>>)) @@ tasks)

\* A faulty variant of SessionMissing, with which update_all_statuses goes on
\* without a session.
SessionNeverMissing == FALSE

\* "not self._session" at the start of update_all_statuses
SessionMissing == session = "none"

\* update_all_statuses up to the first response one of its tasks takes:
\* without a session it returns False at once, otherwise it creates one task
\* per enabled application and waits in gather
PollStart ==
    /\ poll.pc # "gather"
    /\ conn.pc # "testing"
    /\ clock < MaxOps
    /\ clock' = clock + 1
    /\ conn' = NoConn
    /\ IF SessionMissing
       THEN /\ poll' = [NoPoll EXCEPT !.pc = "returned", !.result = "False"]
            /\ UNCHANGED <<app_statuses, log, created>>
       ELSE LET started == StartTasks(Ordered(config.enabled_apps), app_statuses, <<>>)
            IN  /\ created + Cardinality(config.enabled_apps) <= MaxTasks
                /\ created' = created + Cardinality(config.enabled_apps)
                /\ poll' = [NoPoll EXCEPT !.pc = "gather", !.had_session = TRUE,
                                            !.tasks = started.tasks]
                /\ app_statuses' = started.statuses
                /\ log' = log \cup {<<"poll", Endpoint(started.tasks[a].pc)>> :
                                        a \in {b \in DOMAIN started.tasks : started.tasks[b].pc # "done"}}
    /\ UNCHANGED <<config, session, is_connected, monitor, driver, setup, call>>

\* a task is resumed at the response of the call it waits for and runs to
\* its next call or to its end
TaskStep(a) ==
    /\ poll.pc = "gather"
    /\ a \in DOMAIN poll.tasks
    /\ poll.tasks[a].pc # "done"
    /\ \E o \in CallResponses(PollResponses(a, poll.tasks[a].pc)) :
         LET t == poll.tasks[a]
             seg == UpdateAppStatusResume(a, t.pc, app_statuses[a], o, t.recent, t.poison, clock)
         IN  /\ poll' = [poll EXCEPT !.tasks[a] = TaskAfter(t, seg, <<o>>)]
             /\ app_statuses' = WriteStatus(app_statuses, a, seg.st)
             /\ log' = IF seg.pc = "done" THEN log
                       ELSE log \cup {<<"poll", Endpoint(seg.pc)>>}
    /\ UNCHANGED <<config, session, is_connected, conn, clock, created, monitor, driver, setup, call>>

\* A faulty variant of GatherDone, which waits until every task has returned
\* True.
GatherAllTrue(tasks) == \A a \in DOMAIN tasks : tasks[a].pc = "done" /\ tasks[a].ret = "True"

\* A faulty variant of GatherDone, which waits for the first task only.
GatherFirst(tasks) == \E a \in DOMAIN tasks : tasks[a].pc = "done"

\* what gather(*tasks, return_exceptions=True) waits for
GatherDone(tasks) == \A a \in DOMAIN tasks : tasks[a].pc = "done"

\* the count of the results that are True
SuccessCount(tasks) == Cardinality({a \in DOMAIN tasks : tasks[a].ret = "True"})

\* update_all_statuses from the end of its gather to its return
PollReturn ==
    /\ poll.pc = "gather"
    /\ GatherDone(poll.tasks)
    /\ poll' = [poll EXCEPT !.pc = "returned", !.result = Bool(SuccessCount(poll.tasks) > 0)]
    /\ UNCHANGED <<config, session, app_statuses, is_connected, conn, clock, log, created, monitor, driver, setup, call>>

\* get_all_statuses: a copy of the record map
get_all_statuses == app_statuses

Next ==
    \/ ConnectStart
    \/ ConnectStep
    \/ Disconnect
    \/ PollStart
    \/ \E a \in AppNames : TaskStep(a)
    \/ PollReturn

Spec == Init /\ [][Next]_vars

\* ------------------------------------------- the client of one application
\* The client as in Spec, on the configurations with at most one enabled
\* application.
OneAppInit ==
    /\ Init
    /\ Cardinality(config.enabled_apps) <= 1

OneAppSpec == OneAppInit /\ [][Next]_vars

\* ------------------------------------------------------- the polls alone
\* A client whose connect has returned after every health check failed: the
\* session is open and every enabled application has its fresh record.
PollInit ==
    /\ config \in Configs
    /\ session = "open"
    /\ app_statuses = FreshStatuses(<<>>, config.enabled_apps, 1)
    /\ is_connected = FALSE
    /\ conn = NoConn
    /\ poll = NoPoll
    /\ clock = 1
    /\ log = {}
    /\ created = 0
    /\ monitor = NoMonitor
    /\ driver = NoDriver
    /\ setup = NoSetup
    /\ call = NoCall

PollNext == PollStart \/ (\E a \in AppNames : TaskStep(a)) \/ PollReturn \/ Disconnect

\* The polls of that client when every HTTP call is answered in the end (by a
\* response, or by an exception such as the one the session's total timeout
\* raises) and the event loop resumes the task that waits for the answer.
PollSpec ==
    /\ PollInit
    /\ [][PollNext]_vars
    /\ \A a \in AppNames : WF_vars(TaskStep(a))
    /\ WF_vars(PollReturn)

\* --------------------------------------------------------- the media player
\* the source name under which the entity lists an enabled application
SourceName(app) ==
    CASE app = "sabnzbd" -> "SABnzbd"
      [] app = "nzbget" -> "NZBget"
      [] OTHER -> TitleCase(app)

\* _get_app_name_from_source: the application of APP_DISPLAY that has the
\* name, or "" when none has
GetAppNameFromSource(source) ==
    IF \E a \in Apps : SourceName(a) = source
    THEN CHOOSE a \in Apps : SourceName(a) = source
    ELSE ""

Rows(title, artist) == [media_title |-> title, media_artist |-> artist]

\* A faulty variant of UpdateAppDisplay2Row, which shows the lines of an
\* offline record too.
UpdateAppDisplay2RowPassThrough(source, statuses) ==
    LET app_name == GetAppNameFromSource(source)
    IN  IF app_name = "" THEN Rows("Application not found", "Check configuration")
        ELSE IF app_name \notin DOMAIN statuses
        THEN Rows("Status unavailable", "Application not configured")
        ELSE Rows(statuses[app_name].primary_info, statuses[app_name].secondary_info)

\* _update_app_display_2row: the two rows shown for a source that is not the
\* overview
UpdateAppDisplay2Row(source, statuses) ==
    LET app_name == GetAppNameFromSource(source)
    IN  IF app_name = "" THEN Rows("Application not found", "Check configuration")
        ELSE IF app_name \notin DOMAIN statuses
        THEN Rows("Status unavailable", "Application not configured")
        ELSE IF ~statuses[app_name].is_online
        THEN Rows("Connection Error",
                  "Check " \o statuses[app_name].title \o " configuration")
        ELSE Rows(statuses[app_name].primary_info, statuses[app_name].secondary_info)

\* "downloading" in primary_info.lower(), for the primary lines of the model
SaysDownloading(p) == p \in {"Downloading: job @ 5 MB/s (1m)", "Downloading @ 5.0 MB/s (1m)"}

\* "queue" in primary_info.lower() and "idle" not in primary_info.lower(): no
\* primary line of the model names the queue without saying it is idle
SaysQueueBusy(p) == FALSE

\* the applications the overview looks at for its second row, in that order
OverviewOrder == <<"sabnzbd", "nzbget", "sonarr", "radarr", "lidarr", "readarr">>

\* the positions of OverviewOrder whose record is online and downloading
Busy(statuses) ==
    {i \in 1..Len(OverviewOrder) :
        /\ OverviewOrder[i] \in DOMAIN statuses
        /\ statuses[OverviewOrder[i]].is_online
        /\ \/ SaysDownloading(statuses[OverviewOrder[i]].primary_info)
           \/ SaysQueueBusy(statuses[OverviewOrder[i]].primary_info)}

\* A faulty variant of UpdateOverviewDisplay, whose second row is empty when
\* nothing is downloading.
UpdateOverviewDisplayBlank(statuses) ==
    IF DOMAIN statuses = {} THEN Rows("No Applications", "No apps configured")
    ELSE LET online_count == Cardinality({a \in DOMAIN statuses : statuses[a].is_online})
             total_count == Cardinality(DOMAIN statuses)
             busy == Busy(statuses)
         IN  Rows("NZB Info Manager (" \o ToString(online_count) \o "/"
                      \o ToString(total_count) \o " online)",
                  IF busy = {} THEN ""
                  ELSE LET st == statuses[OverviewOrder[CHOOSE i \in busy : \A j \in busy : i <= j]]
                       IN  st.title \o ": " \o st.primary_info)

\* _update_overview_display: the two rows shown for the overview
UpdateOverviewDisplay(statuses) ==
    IF DOMAIN statuses = {} THEN Rows("No Applications", "No apps configured")
    ELSE LET online_count == Cardinality({a \in DOMAIN statuses : statuses[a].is_online})
             total_count == Cardinality(DOMAIN statuses)
             busy == Busy(statuses)
         IN  Rows("NZB Info Manager (" \o ToString(online_count) \o "/"
                      \o ToString(total_count) \o " online)",
                  IF busy = {} THEN "All applications monitored"
                  ELSE LET st == statuses[OverviewOrder[CHOOSE i \in busy : \A j \in busy : i <= j]]
                       IN  st.title \o ": " \o st.primary_info)

\* push_update of a configured entity for the selected source, once its
\* update_all_statuses has returned ok and left the records statuses
PushUpdate(source, ok, statuses) ==
    IF ~ok
    THEN Rows("Connection Error", "Unable to reach applications")
    ELSE IF source = "System Overview" THEN UpdateOverviewDisplay(statuses)
    ELSE UpdateAppDisplay2Row(source, statuses)

\* the rows a push_update shows for the source of application a when the poll
\* that has just returned is its own
Pushed(a) == PushUpdate(SourceName(a), poll.result = "True", app_statuses)

\* -------------------------------------------------- the monitoring loop
ShortWait == 10      \* seconds slept after a cycle that completed
LongWait == 30       \* seconds slept after a cycle in which an exception was caught

\* what a push_update that returns has done: pushed the rows of the selected
\* source, or pushed the error rows because the poll returned False
PushOutcomes == {"updated", "unreachable"}

\* the client, left alone while the monitoring task is looked at
MonitorInit ==
    /\ Init
    /\ config = [enabled_apps |-> {}, hosts |-> {}]

\* start_monitoring_loop: the task is created and runs into push_update, to
\* its first suspension
StartMonitoringLoop ==
    /\ monitor.pc = "none"
    /\ monitor' = [monitor EXCEPT !.pc = "push", !.started = 1]
    /\ UNCHANGED <<clientVars, driver, setup, call>>

\* push_update returns and the loop goes to sleep for the short wait
PushUpdateReturns ==
    /\ monitor.pc = "push"
    /\ ~monitor.cancel
    /\ \E r \in PushOutcomes :
         monitor' = [monitor EXCEPT !.pc = "sleep", !.done = Append(@, r)]
    /\ UNCHANGED <<clientVars, driver, setup, call>>

\* A faulty variant of PushUpdateRaises, in which the exception leaves the
\* loop.
PushUpdateRaisesUncaught ==
    /\ monitor.pc = "push"
    /\ ~monitor.cancel
    /\ monitor' = [monitor EXCEPT !.pc = "ended", !.done = Append(@, "raised")]
    /\ UNCHANGED <<clientVars, driver, setup, call>>

\* push_update raises an exception that is no cancellation: the "except
\* Exception" arm logs it and goes to sleep for the long wait
PushUpdateRaises ==
    /\ monitor.pc = "push"
    /\ ~monitor.cancel
    /\ monitor' = [monitor EXCEPT !.pc = "backoff", !.done = Append(@, "raised")]
    /\ UNCHANGED <<clientVars, driver, setup, call>>

\* the sleep of the try block is over: the next cycle starts
SleepDone ==
    /\ monitor.pc = "sleep"
    /\ ~monitor.cancel
    /\ monitor.started < MaxCycles
    /\ monitor' = [monitor EXCEPT !.pc = "push", !.started = @ + 1,
                                  !.waits = Append(@, ShortWait)]
    /\ UNCHANGED <<clientVars, driver, setup, call>>

\* A faulty variant of BackoffDone, which starts the next cycle without the
\* wait.
BackoffSkipped ==
    /\ monitor.pc = "backoff"
    /\ ~monitor.cancel
    /\ monitor.started < MaxCycles
    /\ monitor' = [monitor EXCEPT !.pc = "push", !.started = @ + 1]
    /\ UNCHANGED <<clientVars, driver, setup, call>>

\* the sleep of the except arm is over: the next cycle starts
BackoffDone ==
    /\ monitor.pc = "backoff"
    /\ ~monitor.cancel
    /\ monitor.started < MaxCycles
    /\ monitor' = [monitor EXCEPT !.pc = "push", !.started = @ + 1,
                                  !.waits = Append(@, LongWait)]
    /\ UNCHANGED <<clientVars, driver, setup, call>>

\* _monitoring_task.cancel(), by on_disconnect or by the end of main: the
\* task is suspended (in push_update or in a sleep) and is marked
CancelTask ==
    /\ monitor.pc \in {"push", "sleep", "backoff"}
    /\ ~monitor.cancel
    /\ monitor' = [monitor EXCEPT !.cancel = TRUE]
    /\ UNCHANGED <<clientVars, driver, setup, call>>

\* A faulty variant of CancelledError, in which the cancellation that arrives
\* inside push_update is caught like any exception.
CancelledErrorCaught ==
    /\ monitor.cancel
    /\ monitor.pc \in {"push", "sleep", "backoff"}
    /\ monitor' = IF monitor.pc = "push"
                  THEN [monitor EXCEPT !.pc = "backoff", !.cancel = FALSE,
                                       !.done = Append(@, "raised")]
                  ELSE [monitor EXCEPT !.pc = "ended"]
    /\ UNCHANGED <<clientVars, driver, setup, call>>

\* the event loop resumes the marked task with CancelledError at the await it
\* is suspended in: inside the try block the error is caught and the loop is
\* left by break; inside the except arm it leaves run_monitoring
CancelledError ==
    /\ monitor.cancel
    /\ monitor.pc \in {"push", "sleep", "backoff"}
    /\ monitor' = [monitor EXCEPT !.pc = "ended"]
    /\ UNCHANGED <<clientVars, driver, setup, call>>

MonitorNext ==
    \/ StartMonitoringLoop
    \/ PushUpdateReturns
    \/ PushUpdateRaises
    \/ SleepDone
    \/ BackoffDone
    \/ CancelTask
    \/ CancelledError

\* the event loop resumes a task whose cancellation was requested
MonitorSpec == MonitorInit /\ [][MonitorNext]_vars /\ WF_vars(CancelledError)

\* ------------------------------------------------ the state of the entity
\* The player of a configured entity: monitor is its monitoring task together
\* with the STATE attribute of the entity (state), call the frame of the
\* handle_command that is being handled or was handled last, and clock counts
\* the commands.
Commands == {"off", "on"}

\* the STATE attribute that handle_command assigns for a command
CommandState(cmd_id) == IF cmd_id = "off" THEN "STANDBY" ELSE "ON"

\* the STATE attribute after a push_update: ON with the rows of the source
\* when update_all_statuses returned True, OFF with the error rows otherwise
PushedState(r) == IF r = "updated" THEN "ON" ELSE "OFF"

PlayerInit ==
    /\ config = [enabled_apps |-> {}, hosts |-> {}]
    /\ session = "none"
    /\ app_statuses = <<>>
    /\ is_connected = FALSE
    /\ conn = NoConn
    /\ poll = NoPoll
    /\ clock = 0
    /\ log = {}
    /\ created = 0
    /\ monitor = [state |-> "ON"] @@ NoMonitor
    /\ driver = NoDriver
    /\ setup = NoSetup
    /\ call = NoCall

\* the push_update of a cycle of the monitoring loop returns and the loop
\* goes to sleep
LoopPushUpdate ==
    /\ monitor.pc = "push"
    /\ \E r \in PushOutcomes :
         monitor' = [monitor EXCEPT !.pc = "sleep", !.done = Append(@, r),
                                    !.state = PushedState(r)]
    /\ UNCHANGED <<clientVars, driver, setup, call>>

\* handle_command for OFF or ON, up to the update_all_statuses that its
\* push_update waits for: the STATE attribute is assigned
HandleCommand ==
    /\ call.fn = NoCall.fn \/ call.result # "-"
    /\ clock < MaxOps
    /\ clock' = clock + 1
    /\ \E cmd_id \in Commands :
         /\ call' = [fn |-> "handle_command", args |-> <<cmd_id>>, result |-> "-"]
         /\ monitor' = [monitor EXCEPT !.state = CommandState(cmd_id)]
    /\ UNCHANGED <<config, session, app_statuses, is_connected, conn, poll, log, created,
                   driver, setup>>

\* the push_update of handle_command goes on after its update_all_statuses
\* and pushes, and handle_command returns StatusCodes.OK
CommandPushed ==
    /\ call.fn = "handle_command"
    /\ call.result = "-"
    /\ \E r \in PushOutcomes :
         monitor' = [monitor EXCEPT !.state = PushedState(r)]
    /\ call' = [call EXCEPT !.result = "OK"]
    /\ UNCHANGED <<clientVars, driver, setup>>

\* the push_update of handle_command raises, and so does handle_command
CommandRaises ==
    /\ call.fn = "handle_command"
    /\ call.result = "-"
    /\ call' = [call EXCEPT !.result = "raised"]
    /\ UNCHANGED <<clientVars, monitor, driver, setup>>

PlayerNext ==
    \/ StartMonitoringLoop
    \/ LoopPushUpdate
    \/ SleepDone
    \/ HandleCommand
    \/ CommandPushed
    \/ CommandRaises

PlayerSpec == PlayerInit /\ [][PlayerNext]_vars

\* --------------------------------------------------------------- the driver
\* the applications that setup enables in the behaviours of the driver
DriverApps == {"sabnzbd", "sonarr"}

\* a client as NZBInfoClient(_config) makes it: no session yet and an empty
\* status map (keys is the map's key set); enabled is the enabled list of the
\* configuration it was built on; opens counts the sessions it has created,
\* closes the calls of close() on its session
NewClient ==
    [session |-> "none", is_connected |-> FALSE, opens |-> 0, closes |-> 0, enabled |-> {},
     keys |-> {}]

\* A faulty variant of Connected, which creates a session at every connect.
ConnectedNewSession(c, reachable) ==
    [c EXCEPT !.session = "open", !.opens = @ + 1, !.is_connected = reachable,
              !.keys = c.keys \cup DOMAIN FreshStatuses(<<>>, c.enabled, 0)]

\* connect of a client, seen from the driver: the session is created if the
\* client has none, every enabled application gets a fresh record, and
\* is_connected tells whether a health check found a backend reachable
Connected(c, reachable) ==
    [c EXCEPT !.session = "open", !.opens = IF c.session = "open" THEN @ ELSE @ + 1,
              !.is_connected = reachable,
              !.keys = c.keys \cup DOMAIN FreshStatuses(<<>>, c.enabled, 0)]

\* disconnect of a client: its session, if it has one, is closed and
\* forgotten
Disconnected(c) ==
    IF c.session = "open"
    THEN [c EXCEPT !.session = "closed", !.closes = @ + 1, !.is_connected = FALSE]
    ELSE [c EXCEPT !.is_connected = FALSE]

\* A faulty variant of LoadExistingConfiguration, which keeps the client it
\* has and connects it again.
LoadExistingConfigurationKeepsClient(d, reachable, event) ==
    IF d.client = 0
    THEN LET c == [NewClient EXCEPT !.enabled = d.disk]
         IN  [d EXCEPT !.client = Len(d.clients) + 1,
                       !.clients = Append(d.clients, IF d.disk # {} THEN Connected(c, reachable) ELSE c),
                       !.player = Len(d.clients) + 1,
                       !.last = event]
    ELSE LET c == [d.clients[d.client] EXCEPT !.enabled = d.disk]
         IN  [d EXCEPT !.clients[d.client] = IF d.disk # {} THEN Connected(c, reachable) ELSE c,
                       !.player = d.client,
                       !.last = event]

\* _load_existing_configuration: the configuration is read from the disk
\* again, _initialize_integration puts a new client built on it in _client,
\* whatever _client was, and links the player to it; the new client is
\* connected when the configuration has enabled applications
LoadExistingConfiguration(d, reachable, event) ==
    LET c == [NewClient EXCEPT !.enabled = d.disk]
    IN  [d EXCEPT !.client = Len(d.clients) + 1,
                  !.clients = Append(d.clients, IF d.disk # {} THEN Connected(c, reachable) ELSE c),
                  !.player = Len(d.clients) + 1,
                  !.last = event]

\* A faulty variant of StartMonitoringTask, which starts a task whether or
\* not there is one.
StartMonitoringTaskAlways(d) ==
    IF d.client # 0
    THEN [d EXCEPT !.tasks = Append(d.tasks, "running"), !.task = Len(d.tasks) + 1]
    ELSE d

\* start_monitoring_loop: a task is created when _monitoring_task is None or
\* done and there is a client
StartMonitoringTask(d) ==
    IF (d.task = 0 \/ d.tasks[d.task] = "ended") /\ d.client # 0
    THEN [d EXCEPT !.tasks = Append(d.tasks, "running"), !.task = Len(d.tasks) + 1]
    ELSE d

\* task.cancel() on a task of the driver: a task that has not ended will be
\* resumed with CancelledError
Cancelled(tasks, i) ==
    [j \in DOMAIN tasks |-> IF j = i /\ tasks[j] = "running" THEN "cancelling" ELSE tasks[j]]

\* the driver, with the client variables left alone; config.json holds what
\* an earlier run has saved
DriverInit ==
    /\ config = [enabled_apps |-> {}, hosts |-> {}]
    /\ session = "none"
    /\ app_statuses = <<>>
    /\ is_connected = FALSE
    /\ conn = NoConn
    /\ poll = NoPoll
    /\ clock = 0
    /\ log = {}
    /\ created = 0
    /\ monitor = NoMonitor
    /\ \E saved \in SUBSET DriverApps : driver = [NoDriver EXCEPT !.disk = saved]
    /\ setup = NoSetup
    /\ call = NoCall

\* on_connect: the remote has connected; the monitoring starts when the
\* configuration has enabled applications
OnConnect ==
    /\ driver.last # "shutdown"
    /\ Len(driver.clients) < MaxClients
    /\ \E reachable \in BOOLEAN :
         LET d == LoadExistingConfiguration(driver, reachable, "connect")
         IN  driver' = IF d.disk # {} THEN StartMonitoringTask(d) ELSE d
    /\ UNCHANGED <<clientVars, monitor, setup, call>>

\* setup_handler, when the setup flow ends with SetupComplete: the flow has
\* saved the applications it enabled, of which there is at least one
SetupComplete ==
    /\ driver.last # "shutdown"
    /\ Len(driver.clients) < MaxClients
    /\ \E enabled_apps \in SUBSET DriverApps \ {{}}, reachable \in BOOLEAN :
         driver' = StartMonitoringTask(
                       LoadExistingConfiguration([driver EXCEPT !.disk = enabled_apps],
                                                 reachable, "setup"))
    /\ UNCHANGED <<clientVars, monitor, setup, call>>

\* on_disconnect: the remote has disconnected; the monitoring task is
\* cancelled and forgotten, the client in _client is disconnected if it says
\* it is connected, and _client is dropped
OnDisconnect ==
    /\ driver.last # "shutdown"
    /\ driver' = [driver EXCEPT
                    !.client = 0,
                    !.clients = [i \in DOMAIN driver.clients |->
                                    IF i = driver.client /\ driver.clients[i].is_connected
                                    THEN Disconnected(driver.clients[i])
                                    ELSE driver.clients[i]],
                    !.task = 0,
                    !.tasks = Cancelled(driver.tasks, driver.task),
                    !.last = "disconnect"]
    /\ UNCHANGED <<clientVars, monitor, setup, call>>

\* the end of main: the monitoring task is cancelled and the client in
\* _client, if any, is disconnected
Shutdown ==
    /\ driver.last # "shutdown"
    /\ driver' = [driver EXCEPT
                    !.clients = [i \in DOMAIN driver.clients |->
                                    IF i = driver.client
                                    THEN Disconnected(driver.clients[i])
                                    ELSE driver.clients[i]],
                    !.tasks = Cancelled(driver.tasks, driver.task),
                    !.last = "shutdown"]
    /\ UNCHANGED <<clientVars, monitor, setup, call>>

\* a cancelled monitoring task is resumed with CancelledError and ends
TaskEnds ==
    /\ \E i \in DOMAIN driver.tasks :
         /\ driver.tasks[i] = "cancelling"
         /\ driver' = [driver EXCEPT !.tasks[i] = "ended"]
    /\ UNCHANGED <<clientVars, monitor, setup, call>>

DriverNext == OnConnect \/ SetupComplete \/ OnDisconnect \/ Shutdown \/ TaskEnds

DriverSpec == DriverInit /\ [][DriverNext]_vars

\* ------------------------------------------------- one client by itself
\* The calls of connect and disconnect on one client, one after the other;
\* the client is the first of driver.clients and clock counts the calls.
MaxCalls == 6

ClientInit ==
    /\ config = [enabled_apps |-> {}, hosts |-> {}]
    /\ session = "none"
    /\ app_statuses = <<>>
    /\ is_connected = FALSE
    /\ conn = NoConn
    /\ poll = NoPoll
    /\ clock = 0
    /\ log = {}
    /\ created = 0
    /\ monitor = NoMonitor
    /\ \E enabled \in SUBSET DriverApps :
         driver = [NoDriver EXCEPT !.client = 1,
                                   !.clients = <<[NewClient EXCEPT !.enabled = enabled]>>]
    /\ setup = NoSetup
    /\ call = NoCall

\* connect: a health check can find a backend reachable only if one is
\* enabled
ClientConnect ==
    /\ clock < MaxCalls
    /\ clock' = clock + 1
    /\ \E reachable \in BOOLEAN :
         driver' = [driver EXCEPT
                      !.clients[1] = Connected(@, reachable /\ @.enabled # {}),
                      !.last = "connect"]
    /\ UNCHANGED <<config, session, app_statuses, is_connected, conn, poll, log, created,
                   monitor, setup, call>>

\* disconnect
ClientDisconnect ==
    /\ clock < MaxCalls
    /\ clock' = clock + 1
    /\ driver' = [driver EXCEPT !.clients[1] = Disconnected(@), !.last = "disconnect"]
    /\ UNCHANGED <<config, session, app_statuses, is_connected, conn, poll, log, created,
                   monitor, setup, call>>

ClientNext == ClientConnect \/ ClientDisconnect

ClientSpec == ClientInit /\ [][ClientNext]_vars

\* ------------------------------------------------------------ the setup flow
\* The texts the user types are sequences of characters.
\* the place of the last c of the text, 0 if it has none
LastIndex(text, c) ==
    IF \E i \in 1..Len(text) : text[i] = c
    THEN CHOOSE i \in 1..Len(text) :
             text[i] = c /\ \A j \in (i + 1)..Len(text) : text[j] # c
    ELSE 0

RECURSIVE Strip(_)
\* str.strip()
Strip(text) ==
    IF text = <<>> THEN text
    ELSE IF Head(text) = " " THEN Strip(Tail(text))
    ELSE IF text[Len(text)] = " " THEN Strip(SubSeq(text, 1, Len(text) - 1))
    ELSE text

\* str.startswith(prefix)
StartsWith(text, prefix) ==
    Len(text) >= Len(prefix) /\ SubSeq(text, 1, Len(prefix)) = prefix

\* text[n:]
From(text, n) == SubSeq(text, n + 1, Len(text))

Https == <<"h", "t", "t", "p", "s", ":", "/", "/">>

Http == <<"h", "t", "t", "p", ":", "/", "/">>

Digits == <<"0", "1", "2", "3", "4", "5", "6", "7", "8", "9">>

\* int(text) raises ValueError
ValueError(text) ==
    text = <<>> \/ \E i \in 1..Len(text) : \A d \in 1..10 : text[i] # Digits[d]

RECURSIVE ParseInt(_)
\* int(text) of a text of digits
ParseInt(text) ==
    IF text = <<>> THEN 0
    ELSE 10 * ParseInt(SubSeq(text, 1, Len(text) - 1))
         + (CHOOSE d \in 0..9 : Digits[d + 1] = text[Len(text)])

\* APP_INFO[app]["port"]
DefaultPort(app) ==
    CASE app = "sabnzbd" -> 8080 [] app = "nzbget" -> 6789 [] app = "sonarr" -> 8989
      [] app = "radarr" -> 7878 [] app = "lidarr" -> 8686 [] app = "readarr" -> 8787
      [] app = "bazarr" -> 6767 [] OTHER -> 5055

\* _parse_host_port_ssl(host_port, default_port)
ParseHostPortSsl(host_port, default_port) ==
    LET stripped == Strip(host_port)
        use_ssl == StartsWith(stripped, Https)
        clean_host_port ==
            IF StartsWith(stripped, Https) THEN From(stripped, 8)
            ELSE IF StartsWith(stripped, Http) THEN From(stripped, 7)
            ELSE stripped
        colon == LastIndex(clean_host_port, ":")
        host == IF colon > 0 THEN SubSeq(clean_host_port, 1, colon - 1) ELSE clean_host_port
        port_str == From(clean_host_port, colon)
    IN  [host |-> Strip(host),
         port |-> IF colon > 0 /\ ~ValueError(port_str) THEN ParseInt(port_str) ELSE default_port,
         ssl |-> use_ssl]

\* What the user can type as the host of an application: a scheme, a host
\* name and a port part, each there or not, and texts with blanks.
HostInputs ==
    {scheme \o name \o port :
        scheme \in {<<>>, Http, Https},
        name \in {<<>>, <<"n", "a", "s">>},
        port \in {<<>>, <<":", "8", "0", "8", "0">>, <<":", "x">>}}
      \cup {<<" ">>, <<" ", "n", "a", "s", " ">>, <<" ", "h", "t", "t", "p", ":", "/", "/", " ">>}

\* the applications of the setup form that the requests of the model fill in
SetupApps == {"sabnzbd", "sonarr"}

\* the setup_data of a DriverSetupRequest: for every application of the
\* form whether it is enabled, its host and its API key
SetupData ==
    [SetupApps -> [enabled : {"true", "false"}, host : {<<>>}, api : {<<>>}]]
        \cup {[a \in SetupApps |-> IF a = "sabnzbd" THEN x ELSE y] :
                 x \in [enabled : {"true"}, host : HostInputs, api : {<<" ", "k">>}],
                 y \in [enabled : {"true", "false"}, host : {<<>>, <<"n", "a", "s">>},
                        api : {<<>>}]}

\* the applications of a request that are enabled with a host that is not
\* blank
WithHost(setup_data) ==
    {a \in DOMAIN setup_data :
        setup_data[a].enabled = "true" /\ Strip(setup_data[a].host) # <<>>}

\* the entry of app_configs for an application of the request
AppConfig(app, entry) ==
    LET parsed == ParseHostPortSsl(entry.host, DefaultPort(app))
    IN  [host |-> parsed.host, port |-> parsed.port, api_key |-> Strip(entry.api),
         ssl |-> parsed.ssl, url_base |-> <<>>]

\* A faulty variant of ShowSetupSummary, which keeps the applications whose
\* connection test succeeded and fails when there is none.
ShowSetupSummaryConnectedOnly(s, enabled_apps, app_configs, connection_results) ==
    LET connected == SelectSeq(enabled_apps, LAMBDA a : connection_results[a])
    IN  [s EXCEPT !.pc = IF connected = <<>> THEN "error" ELSE "confirm",
                  !.enabled_apps = connected,
                  !.app_configs = [a \in {connected[i] : i \in DOMAIN connected} |-> app_configs[a]],
                  !.connection_results = connection_results]

\* A faulty variant of ShowSetupSummary, which writes the choices into the
\* configuration and its file before the user has confirmed.
ShowSetupSummarySaves(s, enabled_apps, app_configs, connection_results) ==
    LET memory == [enabled_apps |-> enabled_apps,
                   applications |-> [a \in DOMAIN s.config.applications \cup DOMAIN app_configs |->
                                        IF a \in DOMAIN app_configs THEN app_configs[a]
                                        ELSE s.config.applications[a]]]
    IN  [s EXCEPT !.pc = "confirm",
                  !.enabled_apps = enabled_apps,
                  !.app_configs = app_configs,
                  !.connection_results = connection_results,
                  !.config = memory,
                  !.saved = <<memory>>]

\* _show_setup_summary: the flow keeps the enabled list and the
\* configurations and asks the user for confirmation
ShowSetupSummary(s, enabled_apps, app_configs, connection_results) ==
    [s EXCEPT !.pc = "confirm",
              !.enabled_apps = enabled_apps,
              !.app_configs = app_configs,
              !.connection_results = connection_results]

\* set_app_config for every kept configuration: the defaults of the
\* application, overwritten by the configuration, in the applications of the
\* configuration in memory
SetAppConfigs(applications, app_configs) ==
    [a \in DOMAIN applications \cup DOMAIN app_configs |->
        IF a \in DOMAIN app_configs THEN app_configs[a] ELSE applications[a]]

SetupInit ==
    /\ Init
    /\ config = [enabled_apps |-> {}, hosts |-> {}]

\* handle_setup for a DriverSetupRequest: _handle_driver_setup_request with
\* its connection tests, each of which succeeds or fails
DriverSetupRequest ==
    /\ setup.flows < MaxFlows
    /\ \E setup_data \in SetupData :
         LET enabled_apps == Ordered(WithHost(setup_data))
             app_configs == [a \in WithHost(setup_data) |-> AppConfig(a, setup_data[a])]
             s == [setup EXCEPT !.last = "request", !.request = setup_data, !.flows = @ + 1]
         IN  IF enabled_apps = <<>>
             THEN setup' = [s EXCEPT !.pc = "error"]
             ELSE \E connection_results \in [WithHost(setup_data) -> BOOLEAN] :
                     setup' = ShowSetupSummary(s, enabled_apps, app_configs, connection_results)
    /\ UNCHANGED <<clientVars, monitor, driver, call>>

\* what the client reads from a configuration object: the enabled list
\* (get_enabled_apps) and for which of its applications get_app_url gives a
\* URL, those configured with a host
ClientView(cfg) ==
    [enabled_apps |-> {cfg.enabled_apps[i] : i \in DOMAIN cfg.enabled_apps},
     hosts |-> {a \in {cfg.enabled_apps[i] : i \in DOMAIN cfg.enabled_apps} :
                   a \in DOMAIN cfg.applications /\ cfg.applications[a].host # <<>>}]

\* A faulty variant of HasChoices: a handler that keeps its setup manager
\* after a terminal action, with the choices of the run that has ended.
HasChoicesOfAnyRun(s) == s.enabled_apps # <<>>

\* the setup manager of the handler has _enabled_apps and _app_configs: it
\* has shown a summary, and setup_handler has not dropped it since (it does
\* so after SetupComplete, AbortDriverSetup and SetupError)
HasChoices(s) == s.pc = "confirm"

\* handle_setup for a UserConfirmationResponse: _save_configuration when the
\* user confirms, with the file writable or not; a setup manager that has
\* not asked for confirmation has kept nothing, and the attribute error
\* makes it a SetupError. The configuration object is the one the running
\* client reads (config is what it reads from it).
UserConfirmationResponse ==
    /\ \E confirm \in BOOLEAN, writable \in BOOLEAN :
         IF ~confirm
         THEN /\ setup' = [setup EXCEPT !.pc = "aborted", !.last = "decline"]
              /\ config' = config
         ELSE IF ~HasChoices(setup)
         THEN /\ setup' = [setup EXCEPT !.pc = "error", !.last = "stray"]
              /\ config' = config
         ELSE LET memory == [enabled_apps |-> setup.enabled_apps,
                             applications |-> SetAppConfigs(setup.config.applications,
                                                            setup.app_configs)]
              IN  /\ setup' = [setup EXCEPT !.pc = IF writable THEN "complete" ELSE "error",
                                            !.last = "confirm",
                                            !.writable = writable,
                                            !.config = memory,
                                            !.saved = IF writable THEN <<memory>> ELSE @]
                  /\ config' = ClientView(memory)
    /\ UNCHANGED <<session, app_statuses, is_connected, conn, poll, clock, log, created,
                   monitor, driver, call>>

\* handle_setup for an AbortDriverSetup
AbortDriverSetup ==
    /\ setup' = [setup EXCEPT !.pc = "error", !.last = "abort"]
    /\ UNCHANGED <<clientVars, monitor, driver, call>>

SetupNext == DriverSetupRequest \/ UserConfirmationResponse \/ AbortDriverSetup

SetupSpec == SetupInit /\ [][SetupNext]_vars

\* ------------------------------------------------------------- the helpers
\* The quantities a downloader reports as text: a number and a unit ("5 MB"
\* for a size, "5 MB/s" for a speed), the bare text "0", or no text (None or
\* the empty text).
Units == {"B", "KB", "MB", "GB"}

Values == {0, 1, 7, 10, 20}

Quantities == [value : Values, unit : Units]

NoText == [value |-> -1, unit |-> ""]

BareZero == [value |-> 0, unit |-> ""]

SizeArgs == {NoText, BareZero} \cup Quantities

SpeedArgs == {NoText, BareZero} \cup Quantities

SizeText(q) ==
    IF q = NoText THEN "" ELSE IF q = BareZero THEN "0"
    ELSE ToString(q.value) \o " " \o q.unit

SpeedText(q) ==
    IF q = NoText THEN "" ELSE IF q = BareZero THEN "0"
    ELSE ToString(q.value) \o " " \o q.unit \o "/s"

\* "0 B/s" in speed: the unit is B and the number's text ends with 0
HasZeroBps(q) == q.unit = "B" /\ q.value % 10 = 0

\* the exponent of 1024 by which a value in the unit is turned into MB (a
\* unit that is neither GB nor KB is taken for MB)
UnitExp(unit) == CASE unit = "GB" -> 1 [] unit = "KB" -> -1 [] OTHER -> 0

Pow1024(k) == CASE k = 0 -> 1 [] k = 1 -> 1024 [] OTHER -> 1048576

\* round(num / den) as format(".0f") rounds, halves to the even neighbour
RoundHalfEven(num, den) ==
    LET q == num \div den
        r == num % den
    IN  IF r > den - r THEN q + 1
        ELSE IF r < den - r THEN q
        ELSE IF q % 2 = 0 THEN q ELSE q + 1

TwoDigits(n) == IF n < 10 THEN "0" \o ToString(n) ELSE ToString(n)

\* the text of an ETA of num/den minutes, for num/den < 60 rounded to the
\* minute and otherwise in hours and minutes
EtaText(num, den) ==
    IF num \div den < 60
    THEN " (" \o ToString(RoundHalfEven(num, den)) \o "m)"
    ELSE " (" \o ToString((num \div den) \div 60) \o "h"
              \o TwoDigits((num \div den) % 60) \o "m)"

\* _calculate_eta(size_left, speed): the ETA is size/speed/60 minutes, here
\* num/den with the units' factors put on the side that keeps both whole
CalculateEta(size_left, speed) ==
    IF size_left = NoText \/ SizeText(size_left) = "0 B" THEN ""
    ELSE IF speed = NoText \/ SpeedText(speed) = "0" \/ HasZeroBps(speed) THEN ""
    ELSE IF size_left.unit = "" \/ speed.unit = "" THEN ""
    ELSE LET k == UnitExp(size_left.unit) - UnitExp(speed.unit)
             num == size_left.value * (IF k > 0 THEN Pow1024(k) ELSE 1)
             den == speed.value * 60 * (IF k < 0 THEN Pow1024(-k) ELSE 1)
         IN  IF speed.value <= 0 THEN ""
             ELSE IF num < den THEN " (<1m)"
             ELSE EtaText(num, den)

\* dict.get(key, default)
Get(dict, key, default) == IF key \in DOMAIN dict THEN dict[key] ELSE default

\* the queue answers of SABnzbd: each of the keys is there or not
Queues ==
    UNION {[keys -> Quantities \cup {NoText}] : keys \in SUBSET {"sizeleft", "speed"}}

\* the ETA of the primary line of _update_sabnzbd_2row for a queue answer
\* with an active job
SabnzbdEta(queue) ==
    CalculateEta(Get(queue, "sizeleft", [value |-> 0, unit |-> "B"]),
                 Get(queue, "speed", [value |-> 0, unit |-> "B"]))

\* what the status answer of NZBGet has for DownloadRate (bytes per second)
\* and RemainingSizeMB; a missing key reads as 0
Rates == {0, 1, 1048576, 10485760}

Remainings == {0, 1, 100, 700}

\* the ETA of the primary line of _update_nzbget_2row ("Queue idle", the line
\* for a DownloadRate of 0, has none)
NzbgetEta(download_rate, remaining_size) ==
    IF remaining_size > 0 /\ download_rate > 0
    THEN EtaText(remaining_size * 1048576, download_rate * 60)
    ELSE ""

\* Texts that are cut are sequences of characters. The names that are cut
\* here are a stem of up to MaxStem letters and one of the endings.
MaxStem == 24

MaxLength == 22

Chars(c, n) == [i \in 1..n |-> c]

Endings ==
    {<<>>, <<".">>, <<".", "m", "k", "v">>, <<".", "j", "p", "e", "g">>,
     <<".", "p", "a", "r", "t", "1">>, <<".", "1", ".", "m", "k", "v">>}

Texts == {Chars("a", n) \o e : n \in 0..MaxStem, e \in Endings}

\* text[:k]
Prefix(text, k) ==
    SubSeq(text, 1, IF k < 0 THEN (IF Len(text) + k < 0 THEN 0 ELSE Len(text) + k)
                    ELSE IF k > Len(text) THEN Len(text) ELSE k)

Ellipsis == <<".", ".", ".">>

\* the place of the last "." of the text, 0 if it has none
LastDot(text) == LastIndex(text, ".")

\* the extension rule of _smart_truncate applies: the text has an extension
\* of at most 4 characters that leaves room for more than 10 others
KeepsExtension(text, max_length) ==
    /\ LastDot(text) > 0
    /\ Len(text) - LastDot(text) <= 4
    /\ max_length - (Len(text) - LastDot(text)) - 4 > 10

\* _smart_truncate(text, max_length)
SmartTruncate(text, max_length) ==
    IF Len(text) <= max_length THEN text
    ELSE IF KeepsExtension(text, max_length)
    THEN LET name == SubSeq(text, 1, LastDot(text) - 1)
             ext == SubSeq(text, LastDot(text) + 1, Len(text))
         IN  Prefix(name, max_length - Len(ext) - 4) \o Ellipsis \o ext
    ELSE Prefix(text, max_length - 3) \o Ellipsis

\* _smart_truncate is called
CallSmartTruncate ==
    /\ call.fn = NoCall.fn
    /\ \E text \in Texts, max_length \in 0..MaxLength :
         call' = [fn |-> "_smart_truncate", args |-> <<text, max_length>>,
                  result |-> SmartTruncate(text, max_length)]
    /\ UNCHANGED <<clientVars, monitor, driver, setup>>

\* Dates are days of the years 2026 and 2027; Unparsable stands for every
\* text that datetime.fromisoformat rejects, the empty text among them.
DaysIn(month) ==
    CASE month = 2 -> 28 [] month \in {4, 6, 9, 11} -> 30 [] OTHER -> 31

Dates ==
    {d \in [year : {2026, 2027}, month : 1..12, day : 1..31] : d.day <= DaysIn(d.month)}

Unparsable == [year |-> 0, month |-> 0, day |-> 0]

RECURSIVE DaysBefore(_)
\* the days of a year before the month
DaysBefore(month) == IF month = 1 THEN 0 ELSE DaysBefore(month - 1) + DaysIn(month - 1)

\* the number of the date's day, counted from the last day of 2025
Ordinal(d) == (d.year - 2026) * 365 + DaysBefore(d.month) + d.day

\* strftime("%b")
MonthAbbr(month) ==
    <<"Jan", "Feb", "Mar", "Apr", "May", "Jun",
      "Jul", "Aug", "Sep", "Oct", "Nov", "Dec">>[month]

\* the days on which the program is run in the model
Nows ==
    {[year |-> 2026, month |-> 1, day |-> 4], [year |-> 2026, month |-> 11, day |-> 5],
     [year |-> 2026, month |-> 12, day |-> 30]}

\* _format_upcoming_date(date_str) on the day now
FormatUpcomingDate(date, now) ==
    IF date = Unparsable THEN "Unknown"
    ELSE LET days_diff == Ordinal(date) - Ordinal(now)
         IN  IF days_diff = 0 THEN "Today"
             ELSE IF days_diff = 1 THEN "Tomorrow"
             ELSE IF days_diff < 7 THEN ToString(days_diff) \o "d"
             ELSE MonthAbbr(date.month) \o " " \o TwoDigits(date.day)

\* _format_upcoming_date is called
CallFormatUpcomingDate ==
    /\ call.fn = NoCall.fn
    /\ \E date \in Dates \cup {Unparsable}, now \in Nows :
         call' = [fn |-> "_format_upcoming_date", args |-> <<date, now>>,
                  result |-> FormatUpcomingDate(date, now)]
    /\ UNCHANGED <<clientVars, monitor, driver, setup>>

\* The calendar answers of a media manager: a list of up to MaxItems items,
\* each with a title, its date and the two flags.
MaxItems == 3

CalendarDay == [year |-> 2026, month |-> 11, day |-> 5]

CalendarItems ==
    [title : {"A", "B"}, monitored : BOOLEAN, hasFile : BOOLEAN,
     date : {CalendarDay, [CalendarDay EXCEPT !.day = 13]}]

Calendars == UNION {[1..n -> CalendarItems] : n \in 0..MaxItems}

RECURSIVE NearestUpcoming(_, _)
\* A faulty variant of FirstUpcoming, which picks the item with the nearest
\* date among those that are monitored and have no file.
NearestUpcoming(calendar_data, i) ==
    LET wanted == {j \in 1..Len(calendar_data) :
                      calendar_data[j].monitored /\ ~calendar_data[j].hasFile}
    IN  IF wanted = {} THEN 0
        ELSE CHOOSE j \in wanted : \A k \in wanted :
                \/ Ordinal(calendar_data[j].date) < Ordinal(calendar_data[k].date)
                \/ Ordinal(calendar_data[j].date) = Ordinal(calendar_data[k].date) /\ j <= k

RECURSIVE FirstUpcoming(_, _)
\* the loop of _get_upcoming_content from item i on: the place of the item
\* it breaks at, 0 if it ends without one
FirstUpcoming(calendar_data, i) ==
    IF i > Len(calendar_data) THEN 0
    ELSE IF calendar_data[i].monitored /\ ~calendar_data[i].hasFile THEN i
    ELSE FirstUpcoming(calendar_data, i + 1)

\* the primary line for the chosen item
NextLine(upcoming, now) ==
    "Next: " \o upcoming.title \o " (" \o FormatUpcomingDate(upcoming.date, now) \o ")"

\* the primary line _get_upcoming_content writes for a calendar answer with
\* status 200
UpcomingLine(calendar_data, now) ==
    IF Len(calendar_data) = 0 THEN "No upcoming releases"
    ELSE IF FirstUpcoming(calendar_data, 1) = 0 THEN "No upcoming releases"
    ELSE NextLine(calendar_data[FirstUpcoming(calendar_data, 1)], now)

\* _get_upcoming_content has the calendar answer
CallGetUpcomingContent ==
    /\ call.fn = NoCall.fn
    /\ \E calendar_data \in Calendars :
         call' = [fn |-> "_get_upcoming_content", args |-> <<calendar_data, CalendarDay>>,
                  result |-> UpcomingLine(calendar_data, CalendarDay)]
    /\ UNCHANGED <<clientVars, monitor, driver, setup>>

\* _calculate_eta is called
CallCalculateEta ==
    /\ call.fn = NoCall.fn
    /\ \E size_left \in SizeArgs, speed \in SpeedArgs :
         call' = [fn |-> "_calculate_eta", args |-> <<size_left, speed>>,
                  result |-> CalculateEta(size_left, speed)]
    /\ UNCHANGED <<clientVars, monitor, driver, setup>>

\* the queue answer of SABnzbd has an active job: the ETA of the primary line
CallSabnzbdEta ==
    /\ call.fn = NoCall.fn
    /\ \E queue \in Queues :
         call' = [fn |-> "_update_sabnzbd_2row", args |-> <<queue>>,
                  result |-> SabnzbdEta(queue)]
    /\ UNCHANGED <<clientVars, monitor, driver, setup>>

\* the status answer of NZBGet is turned into the primary line: its ETA
CallNzbgetEta ==
    /\ call.fn = NoCall.fn
    /\ \E download_rate \in Rates, remaining_size \in Remainings :
         call' = [fn |-> "_update_nzbget_2row", args |-> <<download_rate, remaining_size>>,
                  result |-> NzbgetEta(download_rate, remaining_size)]
    /\ UNCHANGED <<clientVars, monitor, driver, setup>>

\* a text of characters as the string it is
RECURSIVE Str(_)
Str(text) == IF text = <<>> THEN "" ELSE Head(text) \o Str(Tail(text))

\* The names of the jobs of a queue answer: one that fits into 20 characters,
\* one that does not and has an extension, one that does not and has none.
Filenames ==
    {<<"S","h","o","w",".","S","0","1","E","0","2",".","m","k","v">>,
     <<"S","h","o","w",".","N","a","m","e",".","S","0","1","E","0","2",".",
       "1","0","8","0","p",".","m","k","v">>,
     <<"A","_","V","e","r","y","_","L","o","n","g","_","J","o","b","_",
       "N","a","m","e","_","H","e","r","e">>}

Unknown == <<"U","n","k","n","o","w","n">>

\* the slots of a queue answer: each has a filename or none
Slots == UNION {[keys -> Filenames] : keys \in SUBSET {"filename"}}

ActiveJobs == {<<>>} \cup {<<a>> : a \in Slots} \cup {<<a, b>> : a \in Slots, b \in Slots}

JobQuantities ==
    {[value |-> 300, unit |-> "MB"], [value |-> 5, unit |-> "MB"], [value |-> 0, unit |-> "B"]}

JobQueues == UNION {[keys -> JobQuantities] : keys \in SUBSET {"sizeleft", "speed"}}

\* the variant that cuts the name of the job like every other name, at 35
SabnzbdPrimaryDefaultLength(active_jobs, queue) ==
    LET speed == Get(queue, "speed", [value |-> 0, unit |-> "B"])
        size_left == Get(queue, "sizeleft", [value |-> 0, unit |-> "B"])
    IN  IF active_jobs # <<>>
        THEN "Downloading: "
                 \o Str(SmartTruncate(Get(active_jobs[1], "filename", Unknown), 35))
                 \o " @ " \o SpeedText(speed) \o CalculateEta(size_left, speed)
        ELSE "Queue idle"

\* the primary line that _update_sabnzbd_2row writes for a queue answer of
\* status 200 with the slots active_jobs
SabnzbdPrimary(active_jobs, queue) ==
    LET speed == Get(queue, "speed", [value |-> 0, unit |-> "B"])
        size_left == Get(queue, "sizeleft", [value |-> 0, unit |-> "B"])
    IN  IF active_jobs # <<>>
        THEN "Downloading: "
                 \o Str(SmartTruncate(Get(active_jobs[1], "filename", Unknown), 20))
                 \o " @ " \o SpeedText(speed) \o CalculateEta(size_left, speed)
        ELSE "Queue idle"

\* SABnzbd has answered the queue call with status 200: the primary line
CallSabnzbdPrimary ==
    /\ call.fn = NoCall.fn
    /\ \E active_jobs \in ActiveJobs, queue \in JobQueues :
         call' = [fn |-> "_update_sabnzbd_2row.primary_info", args |-> <<active_jobs, queue>>,
                  result |-> SabnzbdPrimary(active_jobs, queue)]
    /\ UNCHANGED <<clientVars, monitor, driver, setup>>

\* ---------------------------------------------------------- _clean_file_path
\* Paths are sequences of characters; "\\" is the one character backslash.
UpperCase ==
    <<"A", "B", "C", "D", "E", "F", "G", "H", "I", "J", "K", "L", "M",
      "N", "O", "P", "Q", "R", "S", "T", "U", "V", "W", "X", "Y", "Z">>

LowerCase ==
    <<"a", "b", "c", "d", "e", "f", "g", "h", "i", "j", "k", "l", "m",
      "n", "o", "p", "q", "r", "s", "t", "u", "v", "w", "x", "y", "z">>

\* str.lower()
Lower(text) ==
    [i \in 1..Len(text) |->
        IF \E k \in 1..26 : UpperCase[k] = text[i]
        THEN LowerCase[CHOOSE k \in 1..26 : UpperCase[k] = text[i]]
        ELSE text[i]]

\* path_prefixes_to_remove, in the order of the list: the prefixes written
\* with backslashes have two of them at each place
PathPrefixesToRemove ==
    <<<<"/", "t", "v", "s", "h", "o", "w", "s", "/">>,
      <<"/", "m", "o", "v", "i", "e", "s", "/">>,
      <<"/", "d", "o", "w", "n", "l", "o", "a", "d", "s", "/">>,
      <<"/", "m", "e", "d", "i", "a", "/">>,
      <<"\\", "\\", "t", "v", "s", "h", "o", "w", "s", "\\", "\\">>,
      <<"\\", "\\", "m", "o", "v", "i", "e", "s", "\\", "\\">>,
      <<"\\", "\\", "d", "o", "w", "n", "l", "o", "a", "d", "s", "\\", "\\">>,
      <<"\\", "\\", "m", "e", "d", "i", "a", "\\", "\\">>,
      <<"C", ":", "\\", "\\">>,
      <<"D", ":", "\\", "\\">>,
      <<"/", "h", "o", "m", "e", "/">>,
      <<"/", "m", "n", "t", "/">>>>

\* sep in text
Contains(text, sep) ==
    \E i \in 1..Len(text) : StartsWith(From(text, i - 1), sep)

RECURSIVE LastPart(_, _)
\* text.split(sep)[-1]: the separators are found from the left, one after
\* the end of the other
LastPart(text, sep) ==
    IF ~Contains(text, sep) THEN text
    ELSE LET i == CHOOSE i \in 1..Len(text) :
                      /\ StartsWith(From(text, i - 1), sep)
                      /\ \A j \in 1..(i - 1) : ~StartsWith(From(text, j - 1), sep)
         IN  LastPart(From(text, i - 1 + Len(sep)), sep)

\* the loop over the prefixes: the first one the path starts with, compared
\* in lower case, is cut off and the loop ends
RECURSIVE RemovePrefix(_, _)
RemovePrefix(clean_path, k) ==
    IF k > Len(PathPrefixesToRemove) THEN clean_path
    ELSE IF StartsWith(Lower(clean_path), Lower(PathPrefixesToRemove[k]))
    THEN From(clean_path, Len(PathPrefixesToRemove[k]))
    ELSE RemovePrefix(clean_path, k + 1)

Slash == <<"/">>

Backslash == <<"\\">>

TwoBackslashes == <<"\\", "\\">>

\* _clean_file_path(file_path)
CleanFilePath(file_path) ==
    IF file_path = <<>> THEN Unknown
    ELSE LET clean_path == RemovePrefix(file_path, 1)
         IN  IF Contains(clean_path, Slash) THEN LastPart(clean_path, Slash)
             ELSE IF Contains(clean_path, TwoBackslashes)
             THEN LastPart(clean_path, TwoBackslashes)
             ELSE clean_path

\* The paths that are cleaned: a root, up to two directories with one of the
\* separators after each, and a file name or none; the empty path is one.
Separators == {Slash, Backslash, TwoBackslashes}

Roots ==
    {<<>>,
     <<"/", "m", "e", "d", "i", "a", "/">>,
     <<"/", "M", "E", "D", "I", "A", "/">>,
     <<"/", "h", "o", "m", "e", "/">>,
     <<"C", ":", "\\">>,
     <<"C", ":", "\\", "\\">>,
     <<"c", ":", "\\", "\\">>,
     <<"\\", "\\", "m", "e", "d", "i", "a", "\\", "\\">>,
     <<"\\", "m", "e", "d", "i", "a", "\\">>,
     <<"/", "s", "r", "v", "/">>}

Media == <<"m", "e", "d", "i", "a">>

Directories ==
    {<<>>} \cup {Media \o sep : sep \in Separators}
           \cup {Media \o sep \o <<"t", "v">> \o sep : sep \in Separators}

FileNames == {<<>>, <<"f", "i", "l", "e", ".", "m", "k", "v">>}

Paths == {root \o dir \o name : root \in Roots, dir \in Directories, name \in FileNames}

\* _clean_file_path is called
CallCleanFilePath ==
    /\ call.fn = NoCall.fn
    /\ \E file_path \in Paths :
         call' = [fn |-> "_clean_file_path", args |-> <<file_path>>,
                  result |-> CleanFilePath(file_path)]
    /\ UNCHANGED <<clientVars, monitor, driver, setup>>

\* ------------------------------------------------- the histories of Bazarr
RECURSIVE Join(_)
\* " | ".join(names)
Join(names) ==
    IF names = <<>> THEN ""
    ELSE IF Len(names) = 1 THEN names[1]
    ELSE names[1] \o " | " \o Join(Tail(names))

\* _format_recent_files(files) on a list of texts: the first two, each
\* cleaned as a path and cut to 30 characters
FormatRecentFileList(files) ==
    IF files = <<>> THEN "No recent activity"
    ELSE LET recent_files ==
                 [i \in 1..(IF Len(files) < 2 THEN Len(files) ELSE 2) |->
                     Str(SmartTruncate(CleanFilePath(files[i]), 30))]
         IN  "Recent: " \o Join(recent_files)

\* The items of the history answers: a title (seriesTitle of an episode,
\* title of a movie) and a language, which may be the empty text.
EpisodeItems ==
    {[title |-> <<"S", "h", "o", "w">>, language |-> <<"e", "n">>],
     [title |-> <<"S", "e", "r", "i", "e", "s">>, language |-> <<>>]}

MovieItems ==
    {[title |-> <<"F", "i", "l", "m">>, language |-> <<>>],
     [title |-> <<"F", "a", "c", "e", "/", "O", "f", "f">>, language |-> <<"e", "n">>]}

\* lists of up to MaxItems items
ListsOf(items) == UNION {[1..n -> items] : n \in 0..MaxItems}

\* the answers to a history request: a list of items with status 200, an
\* answer with status 500, or an exception (status 0)
HistoryAnswers(items) ==
    {[status |-> 200, data |-> d] : d \in ListsOf(items)}
        \cup {[status |-> s, data |-> <<>>] : s \in {0, 500}}

\* the text that is collected for an item
FileInfo(item) ==
    IF item.language # <<>> THEN item.title \o <<" ", "(">> \o item.language \o <<")">>
    ELSE item.title

\* what the episodes request adds to recent_downloads: every item of a
\* status 200 answer
FromEpisodes(episodes) ==
    IF episodes.status = 200 THEN [i \in 1..Len(episodes.data) |-> FileInfo(episodes.data[i])]
    ELSE <<>>

\* what the movies request adds after n collected items: the loop ends when
\* two items are collected
FromMovies(movies, n) ==
    IF movies.status = 200
    THEN [i \in 1..(IF Len(movies.data) < 2 - n THEN Len(movies.data) ELSE 2 - n) |->
             FileInfo(movies.data[i])]
    ELSE <<>>

\* the variant that asks for the movies in every case and lists them first
BazarrHistoriesMoviesFirst(st, episodes, movies) ==
    LET recent_downloads == FromMovies(movies, 0) \o FromEpisodes(episodes)
    IN  [requests |-> <<"episodes", "movies">>,
         recent_downloads |-> recent_downloads,
         st |-> [st EXCEPT !.primary_info = IF recent_downloads # <<>>
                                            THEN "Subtitle downloads active"
                                            ELSE "Subtitle manager idle",
                           !.secondary_info = IF recent_downloads # <<>>
                                              THEN FormatRecentFileList(recent_downloads)
                                              ELSE "No recent downloads"],
         ret |-> TRUE]

\* _update_bazarr_2row after the probe was answered well: the history
\* requests it makes, the items it collects, the record it leaves and what it
\* returns
BazarrHistories(st, episodes, movies) ==
    LET collected == FromEpisodes(episodes)
        asks == Len(collected) < 2
        recent_downloads ==
            IF asks THEN collected \o FromMovies(movies, Len(collected)) ELSE collected
    IN  [requests |-> IF asks THEN <<"episodes", "movies">> ELSE <<"episodes">>,
         recent_downloads |-> recent_downloads,
         st |-> [st EXCEPT !.primary_info = IF recent_downloads # <<>>
                                            THEN "Subtitle downloads active"
                                            ELSE "Subtitle manager idle",
                           !.secondary_info = IF recent_downloads # <<>>
                                              THEN FormatRecentFileList(recent_downloads)
                                              ELSE "No recent downloads"],
         ret |-> TRUE]

\* the record of Bazarr as the well answered probe leaves it
ProbedStatus == BazarrStart(AppStatus("bazarr", 0)).st

\* Bazarr has answered the probe well and the histories are asked for
CallBazarrHistories ==
    /\ call.fn = NoCall.fn
    /\ \E episodes \in HistoryAnswers(EpisodeItems), movies \in HistoryAnswers(MovieItems) :
         call' = [fn |-> "_update_bazarr_2row", args |-> <<episodes, movies>>,
                  result |-> BazarrHistories(ProbedStatus, episodes, movies)]
    /\ UNCHANGED <<clientVars, monitor, driver, setup>>

\* the helper returns and its caller takes the result
Return ==
    /\ call.fn # NoCall.fn
    /\ call' = NoCall
    /\ UNCHANGED <<clientVars, monitor, driver, setup>>

FormatInit ==
    /\ Init
    /\ config = [enabled_apps |-> {}, hosts |-> {}]

FormatNext ==
    \/ CallCalculateEta
    \/ CallSabnzbdEta
    \/ CallNzbgetEta
    \/ CallSmartTruncate
    \/ CallFormatUpcomingDate
    \/ CallGetUpcomingContent
    \/ CallSabnzbdPrimary
    \/ CallCleanFilePath
    \/ CallBazarrHistories
    \/ Return

FormatSpec == FormatInit /\ [][FormatNext]_vars

\* ------------------------------------------- a command beside the loop
\* handle_command runs in the task that reads the messages of the remote,
\* the monitoring loop in its own task (driver.py:104-110); both call
\* update_all_statuses of the one client, and each is suspended at every HTTP
\* call it awaits. poll is the frame of the loop's update_all_statuses; the
\* frame of the command handler is kept in call, with the frame of the
\* update_all_statuses it is in (poll) and the number of those it made (polls).
CommandFrame(p, n) ==
    [fn |-> "handle_command", args |-> <<"select_source">>, result |-> "-", poll |-> p, polls |-> n]

\* update_all_statuses as the command handler calls it for the n-th time
CommandPoll(n) ==
    /\ clock < MaxOps
    /\ clock' = clock + 1
    /\ IF SessionMissing
       THEN /\ call' = CommandFrame([NoPoll EXCEPT !.pc = "returned", !.result = "False"], n)
            /\ UNCHANGED <<app_statuses, log, created>>
       ELSE LET started == StartTasks(Ordered(config.enabled_apps), app_statuses, <<>>)
            IN  /\ created + Cardinality(config.enabled_apps) <= MaxTasks
                /\ created' = created + Cardinality(config.enabled_apps)
                /\ call' = CommandFrame([NoPoll EXCEPT !.pc = "gather", !.had_session = TRUE,
                                                       !.tasks = started.tasks], n)
                /\ app_statuses' = started.statuses
                /\ log' = log \cup {<<"poll", Endpoint(started.tasks[a].pc)>> :
                                        a \in {b \in DOMAIN started.tasks : started.tasks[b].pc # "done"}}
    /\ UNCHANGED <<config, session, is_connected, conn, poll, monitor, driver, setup>>

\* handle_command(SELECT_SOURCE) up to the first response that the
\* update_all_statuses of _force_state_update waits for
ForceStateUpdate ==
    /\ call.fn = NoCall.fn
    /\ CommandPoll(1)

\* a task of the command's update_all_statuses is resumed at the response of
\* the call it waits for
CommandTaskStep(a) ==
    /\ call.fn = "handle_command"
    /\ call.poll.pc = "gather"
    /\ a \in DOMAIN call.poll.tasks
    /\ call.poll.tasks[a].pc # "done"
    /\ \E o \in CallResponses(PollResponses(a, call.poll.tasks[a].pc)) :
         LET t == call.poll.tasks[a]
             seg == UpdateAppStatusResume(a, t.pc, app_statuses[a], o, t.recent, t.poison, clock)
         IN  /\ call' = [call EXCEPT !.poll.tasks[a] = TaskAfter(t, seg, <<o>>)]
             /\ app_statuses' = WriteStatus(app_statuses, a, seg.st)
             /\ log' = IF seg.pc = "done" THEN log
                       ELSE log \cup {<<"poll", Endpoint(seg.pc)>>}
    /\ UNCHANGED <<config, session, is_connected, conn, poll, clock, created, monitor, driver, setup>>

\* the command's update_all_statuses from the end of its gather to its return
CommandPollReturn ==
    /\ call.fn = "handle_command"
    /\ call.poll.pc = "gather"
    /\ GatherDone(call.poll.tasks)
    /\ call' = [call EXCEPT !.poll.pc = "returned",
                            !.poll.result = Bool(SuccessCount(call.poll.tasks) > 0)]
    /\ UNCHANGED <<clientVars, monitor, driver, setup>>

\* _force_state_update has returned and handle_command goes on to its
\* push_update, which calls update_all_statuses again
CommandPushUpdate ==
    /\ call.fn = "handle_command"
    /\ call.result = "-"
    /\ call.polls = 1
    /\ call.poll.pc = "returned"
    /\ CommandPoll(2)

\* the push_update of handle_command has its answer and handle_command
\* returns StatusCodes.OK
CommandReturn ==
    /\ call.fn = "handle_command"
    /\ call.result = "-"
    /\ call.polls = 2
    /\ call.poll.pc = "returned"
    /\ call' = [call EXCEPT !.result = "OK"]
    /\ UNCHANGED <<clientVars, monitor, driver, setup>>

\* A client that is connected to one application, a downloader or a library
\* manager or the subtitle manager, with the monitoring loop running.
OverlapInit ==
    /\ \E a \in {"sabnzbd", "sonarr", "bazarr"} : config = [enabled_apps |-> {a}, hosts |-> {a}]
    /\ session = "open"
    /\ app_statuses = FreshStatuses(<<>>, config.enabled_apps, 0)
    /\ is_connected = TRUE
    /\ conn = NoConn
    /\ poll = NoPoll
    /\ clock = 0
    /\ log = {}
    /\ created = 0
    /\ monitor = NoMonitor
    /\ driver = NoDriver
    /\ setup = NoSetup
    /\ call = NoCall

OverlapNext ==
    \/ PollStart
    \/ \E a \in AppNames : TaskStep(a)
    \/ PollReturn
    \/ ForceStateUpdate
    \/ \E a \in AppNames : CommandTaskStep(a)
    \/ CommandPollReturn
    \/ CommandPushUpdate
    \/ CommandReturn

OverlapSpec == OverlapInit /\ [][OverlapNext]_vars

\* ================================================================ properties
\* A poll cycle that ran its tasks (it had a session) and has returned.
PollEnded == poll.pc = "returned" /\ poll.had_session

\* The responses that are failures of a call: an exception, or a status
\* other than 200.
Failure == Exceptions \cup {"http401", "http500"}

\* The responses that are well-formed answers of a call.
Fine == {"empty", "one", "many"}

\* Every element of the sequence s is in the set S.
AllIn(s, S) == \A i \in 1..Len(s) : s[i] \in S

\* ------------------------------------------------------------------------ C1
\* C1: update_all_statuses returns true if and only if, when the cycle has
\* finished, at least one enabled backend's record has online = true, for
\* every combination of per-backend outcomes of the eight kinds (success,
\* HTTP error, transport exception, the subtitle manager's HTML
\* authentication response, missing host).
C1_TrueIffSomeOnline ==
    (PollEnded /\ config.enabled_apps \subseteq Apps)
        => (poll.result = "True"
                <=> \E a \in config.enabled_apps : app_statuses[a].is_online)

\* The case in which C1 fails: the cycle of a single subtitle manager whose
\* probe was answered 200 with text/html has returned False, and the record
\* is online.
C1_AuthErrorStaysOnline ==
    /\ PollEnded
    /\ config.enabled_apps = {"bazarr"}
    /\ poll.tasks["bazarr"].seen = <<"html">>
    /\ poll.result = "False"
    /\ app_statuses["bazarr"].is_online
    /\ app_statuses["bazarr"].primary_info = "Authentication Error"

\* ------------------------------------------------------------------------ C2
\* A finished task all of whose HTTP calls (at least one) raised.
TransportFailed(t) == t.pc = "done" /\ t.seen # <<>> /\ AllIn(t.seen, Exceptions)

\* C2: for each of the eight kinds, when every HTTP call made for the backend
\* in a poll fails at the transport level (refused connection, timeout), the
\* update leaves the record with online = false and non-empty primary and
\* secondary lines, and raises nothing (it returns a value).
C2_TransportFailureOffline ==
    \A a \in Apps \cap DOMAIN poll.tasks :
        TransportFailed(poll.tasks[a])
            => /\ ~app_statuses[a].is_online
               /\ app_statuses[a].primary_info # ""
               /\ app_statuses[a].secondary_info # ""
               /\ poll.tasks[a].ret \in {"True", "False", "None"}

\* The case in which C2 fails for the library managers: both calls timed
\* out, and the record is online with the lines of the swallowed failures,
\* the update having returned True.
C2_LibraryManagerStaysOnline ==
    \E a \in MediaManagers \cap DOMAIN poll.tasks :
        /\ poll.tasks[a].pc = "done"
        /\ poll.tasks[a].seen = <<"timeout", "timeout">>
        /\ poll.tasks[a].ret = "True"
        /\ app_statuses[a].is_online
        /\ app_statuses[a].primary_info = "No upcoming data"
        /\ app_statuses[a].secondary_info = "No recent activity"

\* ------------------------------------------------------------------------ C3
\* A backend that failed in the cycle: it has no host, or every call made
\* for it failed (an exception or a status other than 200).
Failed(t) == t.pc = "done" /\ AllIn(t.seen, Failure)

\* A backend that succeeded in the cycle: every call made for it (at least
\* one) got a well-formed answer.
Succeeded(t) == t.pc = "done" /\ t.seen # <<>> /\ AllIn(t.seen, Fine)

\* C3: after connect, for a poll over N enabled backends of which K fail and
\* N-K succeed, update_all_statuses returns true iff N-K > 0, and
\* get_all_statuses has exactly N entries, one per enabled backend.
C3_TrueIffSomeSucceeded ==
    (/\ PollEnded
     /\ config.enabled_apps \subseteq Apps
     /\ \A a \in DOMAIN poll.tasks : Failed(poll.tasks[a]) \/ Succeeded(poll.tasks[a]))
        => /\ poll.result = "True" <=> \E a \in DOMAIN poll.tasks : Succeeded(poll.tasks[a])
           /\ DOMAIN get_all_statuses = config.enabled_apps
           /\ Cardinality(DOMAIN get_all_statuses) = Cardinality(config.enabled_apps)

\* The case in which C3 fails: N = K = 1, a library manager both of whose
\* calls failed, and the cycle has returned True.
C3_AllFailedReturnsTrue ==
    /\ PollEnded
    /\ \E a \in MediaManagers : config.enabled_apps = {a} /\ Failed(poll.tasks[a])
    /\ poll.result = "True"

\* ------------------------------------------------------------------------ C4
\* C4: in one poll cycle a task is started for every enabled backend;
\* update_all_statuses returns only after all of them have finished; and
\* when another backend's task has ended in failure, a task that has not
\* finished can still take its next step (the failure does not block it).
C4_AllTasksJoined ==
    /\ (poll.pc = "gather" \/ PollEnded) => DOMAIN poll.tasks = config.enabled_apps
    /\ PollEnded => \A a \in config.enabled_apps : poll.tasks[a].pc = "done"
    /\ poll.pc = "gather" =>
          \A a \in DOMAIN poll.tasks :
              (/\ poll.tasks[a].pc # "done"
               /\ \E b \in DOMAIN poll.tasks \ {a} : poll.tasks[b].ret \in {"False", "None"})
                  => ENABLED TaskStep(a)

\* C4's case: a cycle over two backends has returned, one of them having
\* failed at its first call and the other having run to a successful end
\* that is written in its record.
C4_OneFailedOtherCompleted ==
    /\ PollEnded
    /\ \E a, b \in config.enabled_apps :
          /\ a # b
          /\ poll.tasks[a].ret = "False"
          /\ poll.tasks[a].seen \in {<<"timeout">>, <<"refused">>, <<"http500">>}
          /\ poll.tasks[b].ret = "True"
          /\ Len(poll.tasks[b].seen) >= 2
          /\ app_statuses[b].is_online
          /\ app_statuses[b].last_updated = clock

\* ------------------------------------------------------------------------ C5
\* C5: no failure in any backend (transport exception, non-200 status,
\* malformed response, missing configuration, unknown backend name) makes
\* update_all_statuses raise: every task ends with a value (never with an
\* exception), a task that met a failure ends with False or None, and
\* update_all_statuses returns a boolean.
C5_NothingRaised ==
    /\ \A a \in DOMAIN poll.tasks :
          poll.tasks[a].pc = "done"
              => /\ poll.tasks[a].ret \in {"True", "False", "None"}
                 /\ (poll.tasks[a].ret = "None" <=> (a = UnknownApp /\ a \in config.hosts))
                 /\ a \notin config.hosts => poll.tasks[a].ret = "False"
    /\ poll.pc = "returned" => poll.result \in {"True", "False"}
    /\ (poll.pc = "gather" /\ GatherDone(poll.tasks)) => ENABLED PollReturn

\* C5's case: a cycle has returned in which the subtitle manager's history
\* held an item that is no string, so that the formatting raised out of the
\* per-kind function and was caught by _update_app_status.
C5_FormattingFailureCaught ==
    /\ PollEnded
    /\ "bazarr" \in DOMAIN poll.tasks
    /\ \E i \in 1..Len(poll.tasks["bazarr"].seen) : poll.tasks["bazarr"].seen[i] = "malformed"
    /\ poll.tasks["bazarr"].ret = "False"
    /\ app_statuses["bazarr"].primary_info = "Connection Error"
    /\ app_statuses["bazarr"].secondary_info = "object has no attribute"

\* ------------------------------------------------------------------------ C6
\* The step in which the task of a takes the response of its history call,
\* after a primary call that was answered well, and ends.
HistoryStep(a) ==
    /\ poll.pc = "gather"
    /\ a \in DOMAIN poll.tasks
    /\ poll.tasks[a].pc = "history"
    /\ poll.tasks[a].seen \in {<<"empty">>, <<"many">>}
    /\ poll'.tasks[a].pc = "done"
    /\ Len(poll'.tasks[a].seen) = 2

\* The step in which the subtitle manager's task ends after a probe that was
\* answered well and history calls that all failed.
BazarrHistoriesFailed ==
    /\ poll.pc = "gather"
    /\ "bazarr" \in DOMAIN poll.tasks
    /\ poll.tasks["bazarr"].pc \in {"episodes", "movies"}
    /\ poll'.tasks["bazarr"].pc = "done"
    /\ Head(poll'.tasks["bazarr"].seen) = "empty"
    /\ AllIn(Tail(poll'.tasks["bazarr"].seen), Failure)

\* The secondary line a failed history call leaves, by kind and failure.
SecondaryFallback(a, o) ==
    IF a \in MediaManagers /\ o \notin Exceptions THEN "History unavailable"
    ELSE "No recent activity"

\* C6 as the code has it: when the primary call of a downloader or of a
\* library manager was answered well and its history call fails, the record
\* ends the poll online, with the primary line as the primary call left it,
\* and with the secondary line "No recent activity", except that a library
\* manager whose history call was answered with a status other than 200 gets
\* "History unavailable"; a subtitle manager whose probe was answered well
\* and whose history calls all fail ends online with "Subtitle manager idle"
\* and "No recent downloads".
C6_SecondaryFailureDegrades ==
    [][/\ \A a \in Apps :
            (HistoryStep(a) /\ poll'.tasks[a].seen[2] \in Failure)
                => /\ app_statuses'[a].is_online
                   /\ app_statuses[a].is_online
                   /\ app_statuses'[a].primary_info = app_statuses[a].primary_info
                   /\ app_statuses'[a].primary_info \notin {"", "Offline", "Connection Error", "API Error"}
                   /\ app_statuses'[a].secondary_info = SecondaryFallback(a, poll'.tasks[a].seen[2])
                   /\ poll'.tasks[a].ret = "True"
       /\ BazarrHistoriesFailed
            => /\ app_statuses'["bazarr"].is_online
               /\ app_statuses'["bazarr"].primary_info = "Subtitle manager idle"
               /\ app_statuses'["bazarr"].secondary_info = "No recent downloads"
               /\ poll'.tasks["bazarr"].ret = "True"]_vars

\* C6: for every kind, when the primary call of a poll succeeds and the
\* secondary (history) call fails, by a status other than 200 or by an
\* exception, the record ends the poll with online = true, with the primary
\* line as produced from the primary call, and with the secondary line
\* "No recent activity".
C6_NoRecentActivity ==
    [][/\ \A a \in Apps :
            (HistoryStep(a) /\ poll'.tasks[a].seen[2] \in Failure)
                => /\ app_statuses'[a].is_online
                   /\ app_statuses'[a].primary_info = app_statuses[a].primary_info
                   /\ app_statuses'[a].secondary_info = "No recent activity"
       /\ BazarrHistoriesFailed
            => /\ app_statuses'["bazarr"].is_online
               /\ app_statuses'["bazarr"].secondary_info = "No recent activity"]_vars

\* C6's case: a library manager's task has ended after a calendar call that
\* was answered with items and a history call that was answered 500; the
\* record is online with the calendar's line and "History unavailable".
C6_HistoryUnavailable ==
    \E a \in MediaManagers \cap DOMAIN poll.tasks :
        /\ poll.tasks[a].pc = "done"
        /\ poll.tasks[a].seen = <<"many", "http500">>
        /\ app_statuses[a].is_online
        /\ app_statuses[a].primary_info = "Next: title (Today)"
        /\ app_statuses[a].secondary_info = "History unavailable"

\* ------------------------------------------------------------------------ C7
\* C7: in every reachable state, after any sequence of connect, poll and
\* disconnect and any backend outcomes (a timeout, whose exception text is
\* empty, included), every record of the status map has a non-empty primary
\* line and a non-empty secondary line.
C7_LinesNeverEmpty ==
    \A a \in DOMAIN app_statuses :
        /\ app_statuses[a].primary_info # ""
        /\ app_statuses[a].secondary_info # ""

\* The case in which C7 fails: a poll has returned in which a downloader's
\* queue call timed out, and the record's secondary line is empty.
C7_TimeoutLeavesEmptyLine ==
    /\ PollEnded
    /\ \E a \in {"sabnzbd", "nzbget"} \cap DOMAIN poll.tasks :
          /\ poll.tasks[a].seen = <<"timeout">>
          /\ app_statuses[a].primary_info = "Connection Error"
          /\ app_statuses[a].secondary_info = ""

\* ------------------------------------------------------------------------ C8
\* C8 as the code has it: every poll cycle that ran its tasks assigns the
\* online flag, the primary line and the secondary line of the record of
\* each enabled backend of the eight kinds (the title, the timestamp and the
\* diagnostic payload are assigned on some paths only and otherwise keep the
\* values they had).
C8_CoreFieldsWritten ==
    PollEnded =>
        \A a \in config.enabled_apps \cap Apps :
            {"is_online", "primary_info", "secondary_info"} \subseteq poll.tasks[a].wrote

\* C8: every poll cycle overwrites each enabled backend's record wholesale:
\* after the cycle all of its fields (online flag, title, primary, secondary,
\* timestamp, diagnostic payload) were written by that cycle, on the success
\* paths and on the failure paths alike.
C8_Wholesale ==
    PollEnded =>
        \A a \in config.enabled_apps \cap Apps : poll.tasks[a].wrote = Fields

\* C8's case: a second cycle has returned in which a backend's first call
\* failed; the cycle assigned three fields of its record, whose title,
\* timestamp and payload are those the earlier, successful cycle wrote.
C8_StaleFieldsSurvive ==
    /\ PollEnded
    /\ \E a \in {"sabnzbd", "nzbget", "overseerr"} \cap config.enabled_apps :
          /\ poll.tasks[a].wrote = {"is_online", "primary_info", "secondary_info"}
          /\ app_statuses[a].primary_info = "API Error"
          /\ app_statuses[a].title = SuccessTitle(a)
          /\ app_statuses[a].raw_data # "{}"
          /\ app_statuses[a].last_updated < clock

\* ------------------------------------------------------------------------ C9
\* The step is one of the task of a (a task's step always changes the task's
\* own position or the responses it has taken).
TaskRan(a) ==
    /\ poll.pc = "gather"
    /\ poll'.pc = "gather"
    /\ a \in DOMAIN poll.tasks
    /\ poll'.tasks[a] # poll.tasks[a]

\* The step in which the tasks of a cycle are created and run, one after
\* the other, to their first call.
TasksStarted == poll.pc # "gather" /\ poll'.pc = "gather"

\* C9: within a poll cycle, the task of backend X modifies only the record
\* keyed by X: every later step of X's task leaves the record of every other
\* identifier and the key set of the status map unchanged, whatever the
\* positions of the other tasks are; and when the tasks are started, each
\* record becomes what the first segment of its own task alone makes of it,
\* the key set staying as it was.
C9_TaskWritesOwnRecordOnly ==
    [][/\ \A a \in AppNames :
             TaskRan(a) =>
                 /\ DOMAIN app_statuses' = DOMAIN app_statuses
                 /\ \A b \in DOMAIN app_statuses \ {a} : app_statuses'[b] = app_statuses[b]
                 /\ \A b \in DOMAIN poll.tasks \ {a} : poll'.tasks[b] = poll.tasks[b]
       /\ TasksStarted =>
             /\ DOMAIN app_statuses' = DOMAIN app_statuses
             /\ \A b \in DOMAIN app_statuses :
                   app_statuses'[b] =
                       IF b \in DOMAIN poll'.tasks
                       THEN UpdateAppStatusStart(b, app_statuses[b], b \in config.hosts).st
                       ELSE app_statuses[b]]_vars

\* C9's case: two tasks are interleaved; one has written its record and
\* waits for its second response while the other, which took a failure, has
\* ended and written its own record.
C9_TasksInterleaved ==
    /\ poll.pc = "gather"
    /\ \E a, b \in DOMAIN poll.tasks :
          /\ a # b
          /\ poll.tasks[a].pc = "history"
          /\ app_statuses[a].is_online
          /\ poll.tasks[b].pc = "done"
          /\ poll.tasks[b].ret = "False"
          /\ poll.tasks[b].seen # <<>>
          /\ ~app_statuses[b].is_online
          /\ app_statuses[b].primary_info \in {"Connection Error", "API Error"}

\* ----------------------------------------------------------------------- C10
\* C10: connect marks an enabled backend online if and only if its
\* health-check request was answered with status 200 or 401, and offline in
\* every other case (another status, an exception, no host, for which no
\* request is made); it issues no status-detail request; and it returns true,
\* and sets is_connected, iff at least one enabled backend was marked online.
C10_ConnectMarksReachable ==
    conn.pc = "returned" =>
        /\ DOMAIN conn.probed = config.enabled_apps \cap config.hosts
        /\ \A a \in config.enabled_apps :
              app_statuses[a].is_online
                  <=> (a \in DOMAIN conn.probed /\ HttpStatus(conn.probed[a]) \in {200, 401})
        /\ \A a \in config.enabled_apps :
              /\ app_statuses[a].primary_info = "Offline"
              /\ app_statuses[a].secondary_info = "Not connected"
        /\ <<"connect", "detail">> \notin log
        /\ conn.result = Bool(\E a \in config.enabled_apps : app_statuses[a].is_online)
        /\ session = "open" => (is_connected <=> conn.result = "True")

\* C10's case: connect has returned true after one health check answered
\* 401 and another that raised or was answered 500.
C10_OneReachableByStatus401 ==
    /\ conn.pc = "returned"
    /\ conn.result = "True"
    /\ is_connected
    /\ \E a, b \in DOMAIN conn.probed :
          /\ conn.probed[a] = "http401"
          /\ app_statuses[a].is_online
          /\ conn.probed[b] \in {"timeout", "refused", "http500"}
          /\ ~app_statuses[b].is_online

\* ----------------------------------------------------------------------- C11
\* C11: is_connected is the sticky result of the last successful probe or
\* poll: a connect or an update_all_statuses that finds at least one backend
\* online makes is_connected true (here: has made it true when it returns,
\* no disconnect having come since), and is_connected keeps its value in
\* every step that is not one of connect, of a poll or of disconnect.
C11_StickyProbeOrPoll ==
    [][/\ (conn'.pc = "returned" /\ conn'.result = "True" /\ session' = "open")
             => is_connected'
       /\ (poll'.pc = "returned" /\ poll'.result = "True" /\ session' = "open")
             => is_connected'
       /\ is_connected' # is_connected
             => \/ conn'.pc = "returned" /\ conn.pc # "returned"
                \/ poll' # poll
                \/ session' = "none"]_vars

\* The case in which C11 fails: connect found no backend reachable, the poll
\* after it found one online and has returned True, no disconnect has come,
\* and is_connected is false.
C11_PollLeavesDisconnected ==
    /\ PollEnded
    /\ poll.result = "True"
    /\ session = "open"
    /\ \E a \in config.enabled_apps : app_statuses[a].is_online
    /\ ~is_connected

\* ----------------------------------------------------------------------- C12
\* C12: for an enabled backend whose configuration has no host, the
\* connectivity probe issues no health check (the backend is neither waiting
\* for one nor among those that were answered), and its poll task ends before
\* any request: it has taken no response, its record is offline with primary
\* "Not configured" and secondary "Missing configuration", it returned False,
\* and a poll that returned True owes that to the task of another backend.
C12_MissingHostShortCircuits ==
    \A a \in config.enabled_apps \ config.hosts :
        /\ a \notin DOMAIN conn.probed
        /\ \A i \in 1..Len(conn.todo) : conn.todo[i] # a
        /\ a \in DOMAIN poll.tasks =>
              /\ poll.tasks[a].pc = "done"
              /\ poll.tasks[a].seen = <<>>
              /\ poll.tasks[a].ret = "False"
              /\ ~app_statuses[a].is_online
              /\ app_statuses[a].primary_info = "Not configured"
              /\ app_statuses[a].secondary_info = "Missing configuration"
              /\ (PollEnded /\ poll.result = "True") =>
                    \E b \in config.hosts : poll.tasks[b].ret = "True"

\* A poll over two enabled backends has returned True: one of them has no
\* host and was reported "Not configured", the other was polled and is
\* online; the connect before it probed the second one only.
C12_OneOfTwoNotConfigured ==
    /\ PollEnded
    /\ poll.result = "True"
    /\ \E a \in config.enabled_apps \ config.hosts :
           /\ a \in DOMAIN poll.tasks
           /\ app_statuses[a].primary_info = "Not configured"
    /\ \E b \in config.enabled_apps \cap config.hosts :
           /\ poll.tasks[b].seen # <<>>
           /\ app_statuses[b].is_online

\* ----------------------------------------------------------------------- C18
\* C18: when the probe of the subtitle manager is answered 200 with a
\* text/html content type, the task ends there: the probe is the only request
\* it made (neither history request is issued), the record has primary
\* "Authentication Error", secondary "Check API key configuration" and is
\* online, and the task returned False.  When the probe is answered with
\* another status than 200 or raises, the task ends there as well, the record
\* is offline with primary "Connection Error", and the task returned False.
C18_ProbeOutcomes ==
    ("bazarr" \in DOMAIN poll.tasks /\ poll.tasks["bazarr"].seen # <<>>) =>
        LET t == poll.tasks["bazarr"]
            st == app_statuses["bazarr"]
        IN  /\ Head(t.seen) = "html" =>
                  /\ t.seen = <<"html">>
                  /\ t.pc = "done"
                  /\ t.ret = "False"
                  /\ st.is_online
                  /\ st.primary_info = "Authentication Error"
                  /\ st.secondary_info = "Check API key configuration"
            /\ Head(t.seen) \in Failure =>
                  /\ Len(t.seen) = 1
                  /\ t.pc = "done"
                  /\ t.ret = "False"
                  /\ ~st.is_online
                  /\ st.primary_info = "Connection Error"

\* A poll over the subtitle manager and another backend is under way: the
\* probe was answered with the HTML page and the subtitle manager's task has
\* ended with the authentication error on an online record, while the other
\* task still waits for an answer.
C18_HtmlProbeEndsTask ==
    /\ poll.pc = "gather"
    /\ "bazarr" \in DOMAIN poll.tasks
    /\ poll.tasks["bazarr"].seen = <<"html">>
    /\ poll.tasks["bazarr"].pc = "done"
    /\ app_statuses["bazarr"].is_online
    /\ app_statuses["bazarr"].secondary_info = "Check API key configuration"
    /\ \E b \in DOMAIN poll.tasks : poll.tasks[b].pc # "done"

\* ----------------------------------------------------------------------- C19
\* The two ways the call a task waits for can fail in transport, and what the
\* task does with each of them, from the same record.
AfterTimeout(a) ==
    LET t == poll.tasks[a]
    IN  UpdateAppStatusResume(a, t.pc, app_statuses[a], "timeout", t.recent, t.poison, clock)

AfterRefused(a) ==
    LET t == poll.tasks[a]
    IN  UpdateAppStatusResume(a, t.pc, app_statuses[a], "refused", t.recent, t.poison, clock)

Waiting(a) == poll.pc = "gather" /\ a \in DOMAIN poll.tasks /\ poll.tasks[a].pc # "done"

\* C19: for every backend kind, two polls that start from the same record and
\* differ only in whether the failing call ended by a timeout or by a refused
\* connection leave identical records: whatever call a task waits for, the
\* record after a timeout is the record after a refusal.
C19_TimeoutSameAsRefused ==
    \A a \in AppNames : Waiting(a) => AfterTimeout(a).st = AfterRefused(a).st

\* C19 as the code has it: the two polls go on alike (same next call, same
\* result) and leave records with the same online flag and the same primary
\* line; the secondary lines are the same where the failure is absorbed (the
\* calendar and history calls of a library manager, the history calls of a
\* downloader and of the subtitle manager) and are otherwise (the first call
\* of a downloader, of the subtitle manager and of the request manager) the
\* text of the exception, which is empty for the timeout and not for the
\* refusal.
C19_SameButErrorDetail ==
    \A a \in AppNames : Waiting(a) =>
        \A x \in {AfterTimeout(a)}, y \in {AfterRefused(a)} :
            /\ x.pc = y.pc /\ x.ret = y.ret /\ x.recent = y.recent /\ x.poison = y.poison
            /\ [x.st EXCEPT !.secondary_info = ""] = [y.st EXCEPT !.secondary_info = ""]
            /\ IF poll.tasks[a].pc \in {"calendar", "history", "episodes", "movies"}
               THEN x.st = y.st
               ELSE /\ x.pc = "done"
                    /\ ~x.st.is_online
                    /\ x.st.primary_info = "Connection Error"
                    /\ x.st.secondary_info = ExcText("timeout")
                    /\ y.st.secondary_info = ExcText("refused")

\* The first call of a downloader's task timed out and the task has ended:
\* the record is offline with an empty secondary line, where a refused
\* connection would have left the text of the refusal.
C19_TimeoutDiffersFromRefusal ==
    \E a \in {"sabnzbd", "nzbget"} :
        /\ a \in DOMAIN poll.tasks
        /\ poll.tasks[a].seen = <<"timeout">>
        /\ poll.tasks[a].pc = "done"
        /\ app_statuses[a].primary_info = "Connection Error"
        /\ app_statuses[a].secondary_info = ""
        /\ DownloaderPrimary(a, app_statuses[a], "refused").st.secondary_info # ""

\* ----------------------------------------------------------------------- C17
\* C17: every poll cycle terminates: when every call is answered in the end
\* by a response or by a failure, an update_all_statuses that has started its
\* tasks returns, whatever is enabled and however the answers and failures
\* are mixed.
C17_PollTerminates == (poll.pc = "gather") ~> (poll.pc = "returned")

\* A poll over two backends has returned although no call of it was answered
\* with a response: every call of one backend timed out, every call of the
\* other failed too.
C17_ReturnedWithHungBackends ==
    /\ PollEnded
    /\ Cardinality(DOMAIN poll.tasks) = 2
    /\ \E a \in DOMAIN poll.tasks :
           /\ poll.tasks[a].seen # <<>>
           /\ AllIn(poll.tasks[a].seen, {"timeout"})
    /\ \A a \in DOMAIN poll.tasks :
           /\ poll.tasks[a].seen # <<>>
           /\ AllIn(poll.tasks[a].seen, Failure)

\* ----------------------------------------------------------------------- C20
\* C20: when the selected source is a single enabled backend, the two rows
\* pushed by push_update (media title and media artist) are the primary and
\* the secondary line of that backend's record, whether the record is online
\* or offline and whatever the state of the other backends.
C20_RowsAreRecordLines ==
    poll.pc = "returned" =>
        \A a \in (config.enabled_apps \cap Apps) \cap DOMAIN app_statuses :
            Pushed(a) = Rows(app_statuses[a].primary_info, app_statuses[a].secondary_info)

\* C20 as the code has it: the rows are the record's two lines when the poll
\* returned True and the record is online; when the poll returned True and
\* the record is offline they are "Connection Error" and "Check <title>
\* configuration", whatever lines the record has; when the poll returned
\* False they are "Connection Error" and "Unable to reach applications",
\* whatever the record.
C20_RowsOfOnlineRecord ==
    poll.pc = "returned" =>
        \A a \in (config.enabled_apps \cap Apps) \cap DOMAIN app_statuses :
            LET st == app_statuses[a]
            IN  Pushed(a) =
                    IF poll.result # "True"
                    THEN Rows("Connection Error", "Unable to reach applications")
                    ELSE IF st.is_online
                    THEN Rows(st.primary_info, st.secondary_info)
                    ELSE Rows("Connection Error", "Check " \o st.title \o " configuration")

\* A poll over two backends has returned True: one record is online, the
\* other is offline with the lines of an API error, and the rows shown for the
\* second are not its lines.
C20_OfflineLinesMasked ==
    /\ PollEnded
    /\ poll.result = "True"
    /\ \E a \in config.enabled_apps \cap Apps :
           /\ ~app_statuses[a].is_online
           /\ app_statuses[a].primary_info = "API Error"
           /\ Pushed(a).media_title = "Connection Error"
           /\ Pushed(a).media_artist # app_statuses[a].secondary_info

\* ----------------------------------------------------------------------- C13
\* C13: the monitoring loop never terminates for any reason other than the
\* cancellation of its task: the task has ended only if it was cancelled, and
\* whatever push_update did in a cycle (returned after an update, returned
\* after reporting all backends unreachable, or raised), the task that is not
\* cancelled is in a wait from which the next cycle starts.
C13_EndsOnlyByCancellation ==
    /\ monitor.pc = "ended" => monitor.cancel
    /\ (monitor.pc \in {"sleep", "backoff"} /\ ~monitor.cancel) =>
          /\ Len(monitor.done) = monitor.started
          /\ monitor.started < MaxCycles => ENABLED (SleepDone \/ BackoffDone)
    /\ (monitor.pc = "push" /\ ~monitor.cancel) =>
          ENABLED PushUpdateReturns /\ ENABLED PushUpdateRaises

\* The loop is in a further cycle after a cycle in which push_update raised
\* and one in which it reported every backend unreachable.
C13_GoesOnAfterFailures ==
    /\ monitor.pc = "push"
    /\ ~monitor.cancel
    /\ \E i \in 1..Len(monitor.done) : monitor.done[i] = "raised"
    /\ \E i \in 1..Len(monitor.done) : monitor.done[i] = "unreachable"

\* ----------------------------------------------------------------------- C14
\* C14: in the monitoring loop a cycle that completed is followed by the
\* short wait (10 s) and a cycle in which an exception escaped push_update by
\* the long wait (30 s), before the next cycle; no two cycles start without
\* one of these waits between them: every cycle but the first was started at
\* the end of a wait, and the i-th wait is the one that belongs to the
\* outcome of the i-th cycle.
C14_WaitBetweenCycles ==
    monitor.started > 0 =>
        /\ Len(monitor.waits) = monitor.started - 1
        /\ Len(monitor.done) >= Len(monitor.waits)
        /\ \A i \in 1..Len(monitor.waits) :
               monitor.waits[i] = IF monitor.done[i] = "raised" THEN LongWait ELSE ShortWait
        /\ monitor.pc = "sleep" => monitor.done[monitor.started] \in PushOutcomes
        /\ monitor.pc = "backoff" => monitor.done[monitor.started] = "raised"

\* The third cycle has started: the first cycle completed and was followed by
\* the wait of 10 s, the second raised and was followed by the wait of 30 s.
C14_ShortThenLongWait ==
    /\ monitor.pc = "push"
    /\ monitor.started = 3
    /\ monitor.done = <<"updated", "raised">>
    /\ monitor.waits = <<ShortWait, LongWait>>

\* ----------------------------------------------------------------------- C15
\* C15: whenever the monitoring task is cancelled, at whatever point of its
\* cycle it is (inside push_update, in the short wait or in the long wait
\* after an error), the task terminates in the end, and from the request of
\* the cancellation on no further cycle is started.
C15_CancelledTaskEnds ==
    /\ monitor.cancel ~> (monitor.pc = "ended")
    /\ [][monitor.cancel => /\ monitor'.started = monitor.started
                            /\ monitor'.pc \in {monitor.pc, "ended"}]_vars

\* The task was cancelled during the long wait that follows an error and has
\* ended; it had started two cycles and started none after that.
C15_EndedFromBackoff ==
    /\ monitor.pc = "ended"
    /\ monitor.cancel
    /\ monitor.started = 2
    /\ monitor.done = <<"updated", "raised">>
    /\ monitor.waits = <<ShortWait>>

\* ----------------------------------------------------------------------- C16
\* C16: every session that a client creates is closed exactly once: after
\* any sequence of on_connect, setup completion, on_disconnect and shutdown,
\* once on_disconnect or the shutdown has been handled no session created
\* before is still open (the sessions of clients whose connect found no
\* backend reachable and of clients that were replaced included), and no
\* session is closed twice.
C16_SessionsClosedOnce ==
    /\ driver.last \in {"disconnect", "shutdown"} =>
          \A i \in DOMAIN driver.clients : driver.clients[i].session # "open"
    /\ \A i \in DOMAIN driver.clients : driver.clients[i].closes <= 1

\* The case in which C16 fails: on_disconnect has been handled and has
\* dropped the only client there was, whose connect had found no backend
\* reachable; its session is open and nothing refers to it.
C16_SessionLeftOpen ==
    /\ driver.last = "disconnect"
    /\ driver.client = 0
    /\ Len(driver.clients) = 1
    /\ driver.clients[1].session = "open"
    /\ driver.clients[1].closes = 0

\* ----------------------------------------------------------------------- C21
\* The sources that can be selected: the overview, the name of every enabled
\* application, the placeholder of an entity without applications and a
\* name that is no application's.
Sources ==
    {"System Overview", "No Applications Configured", "Plex"}
        \cup {SourceName(a) : a \in config.enabled_apps}

C27_EmptyIffZero ==
    call.fn = "_calculate_eta" /\ call.args[1] \in Quantities /\ call.args[2] \in Quantities =>
        (call.result = "") <=> (call.args[1].value = 0 \/ call.args[2].value = 0)

\* The case in which C27 fails: for the size "0 MB" and the speed "7 MB/s"
\* _calculate_eta has returned " (<1m)".
C27_ZeroSizeHasEta ==
    /\ call.fn = "_calculate_eta"
    /\ SizeText(call.args[1]) = "0 MB"
    /\ SpeedText(call.args[2]) = "7 MB/s"
    /\ call.result = " (<1m)"

\* ----------------------------------------------------------------------- C26
\* a quantity of a queue answer is zero or missing
ZeroOrMissing(queue, key) ==
    key \notin DOMAIN queue \/ queue[key] = NoText \/ queue[key].value = 0

\* C26: the ETA part of a downloader's primary line is the empty text
\* whenever the remaining size is zero or missing or the speed is zero or
\* missing, and no primary line of SABnzbd or NZBGet shows the ETA "(0m)".
C26_NoEtaForZeroAndNoZeroMinutes ==
    /\ call.fn = "_update_nzbget_2row" =>
         /\ call.args[1] = 0 \/ call.args[2] = 0 => call.result = ""
         /\ call.result # " (0m)"
    /\ call.fn = "_update_sabnzbd_2row" =>
         /\ ZeroOrMissing(call.args[1], "sizeleft") \/ ZeroOrMissing(call.args[1], "speed")
              => call.result = ""
         /\ call.result # " (0m)"

\* The case in which C26 fails: NZBGet reports 1 MB left at 10 MB/s and the
\* primary line has the ETA "(0m)".
C26_NzbgetShowsZeroMinutes ==
    /\ call.fn = "_update_nzbget_2row"
    /\ call.args = <<10485760, 1>>
    /\ call.result = " (0m)"

\* ----------------------------------------------------------------------- C28
\* C28: for every text and every max_length the output of _smart_truncate
\* has at most max_length characters; when the text does not fit and the
\* extension rule does not apply, the output has exactly max_length
\* characters and ends with "...".
C28_AtMostMaxLength ==
    call.fn = "_smart_truncate" =>
        LET text == call.args[1]
            max_length == call.args[2]
        IN  /\ Len(call.result) <= max_length
            /\ Len(text) > max_length /\ ~KeepsExtension(text, max_length) =>
                 /\ Len(call.result) = max_length
                 /\ SubSeq(call.result, Len(call.result) - 2, Len(call.result)) = Ellipsis

\* The case in which C28 fails: a text of four characters cut to a
\* max_length of 2 has come back with six characters.
C28_LongerThanMaxLength ==
    /\ call.fn = "_smart_truncate"
    /\ call.args = <<Chars("a", 4), 2>>
    /\ call.result = <<"a", "a", "a", ".", ".", ".">>

\* ----------------------------------------------------------------------- C29
\* the difference in days of a call of _format_upcoming_date
DaysDiff == Ordinal(call.args[1]) - Ordinal(call.args[2])

MonthAndDay(date) == MonthAbbr(date.month) \o " " \o TwoDigits(date.day)

\* C29: _format_upcoming_date maps a date by its difference in days from
\* today: 0 gives "Today", 1 gives "Tomorrow", 2 to 6 give "<N>d", every
\* other difference (7 or more, and every negative one) gives the month's
\* abbreviation and the day; an unparsable text gives "Unknown".
C29_DateByDifference ==
    call.fn = "_format_upcoming_date" =>
        IF call.args[1] = Unparsable THEN call.result = "Unknown"
        ELSE CASE DaysDiff = 0 -> call.result = "Today"
               [] DaysDiff = 1 -> call.result = "Tomorrow"
               [] DaysDiff \in 2..6 -> call.result = ToString(DaysDiff) \o "d"
               [] OTHER -> call.result = MonthAndDay(call.args[1])

\* The case in which C29 fails: on 5 November the date 2 November has been
\* formatted as "-3d".
C29_PastDateAsDays ==
    /\ call.fn = "_format_upcoming_date"
    /\ call.args = <<[year |-> 2026, month |-> 11, day |-> 2],
                     [year |-> 2026, month |-> 11, day |-> 5]>>
    /\ call.result = "-3d"

\* ----------------------------------------------------------------------- C30
\* the places of the calendar's items that are monitored and have no file
Wanted(calendar_data) ==
    {i \in 1..Len(calendar_data) : calendar_data[i].monitored /\ ~calendar_data[i].hasFile}

\* C30: for a media manager the item on the primary line is the first item,
\* in the order of the calendar answer, that is monitored and has no file,
\* whatever the items' dates; for an empty calendar or one without such an
\* item the primary line is "No upcoming releases".
C30_FirstInApiOrder ==
    call.fn = "_get_upcoming_content" =>
        LET calendar_data == call.args[1]
        IN  IF Wanted(calendar_data) = {} THEN call.result = "No upcoming releases"
            ELSE \E i \in Wanted(calendar_data) :
                    /\ \A j \in Wanted(calendar_data) : i <= j
                    /\ call.result = NextLine(calendar_data[i], call.args[2])

\* The case of C30: the calendar has two items that are monitored and have
\* no file, the later one first, and the primary line shows the first.
C30_LaterItemShown ==
    /\ call.fn = "_get_upcoming_content"
    /\ Len(call.args[1]) = 2
    /\ Wanted(call.args[1]) = {1, 2}
    /\ call.args[1][1].title = "A" /\ call.args[1][2].title = "B"
    /\ Ordinal(call.args[1][1].date) > Ordinal(call.args[1][2].date)
    /\ call.result = "Next: A (Nov 13)"

\* ----------------------------------------------------------------------- C22
\* C22: after a setup run has ended in SetupComplete the components in use
\* have the saved configuration: the player is linked to a fresh client built
\* on the configuration read again, and once its connect has run the key set
\* of the status map is exactly the set of the newly enabled backends.
C22_SavedConfigurationInUse ==
    driver.last = "setup" =>
        /\ driver.player = driver.client
        /\ driver.client = Len(driver.clients)
        /\ driver.clients[driver.client].enabled = driver.disk
        /\ driver.clients[driver.client].keys = driver.disk

\* The case of C22: the client before the setup had records of sabnzbd and
\* sonarr, the setup has enabled sonarr alone, and the client in use has the
\* record of sonarr and no other.
C22_DisabledBackendGone ==
    /\ driver.last = "setup"
    /\ Len(driver.clients) = 2
    /\ driver.clients[1].keys = {"sabnzbd", "sonarr"}
    /\ driver.disk = {"sonarr"}
    /\ driver.clients[driver.player].keys = {"sonarr"}

\* ----------------------------------------------------------------------- C25
\* the monitoring tasks that have not been cancelled and have not ended
Running == {i \in DOMAIN driver.tasks : driver.tasks[i] = "running"}

\* C25: at most one monitoring task is running at any time: after any
\* sequence of on_connect, setup completion and on_disconnect there are never
\* two tasks of run_monitoring that poll, a task that was cancelled being one
\* that starts no further cycle (C15); and the running task is the one in
\* _monitoring_task.
C25_OneMonitoringTask ==
    /\ Cardinality(Running) <= 1
    /\ \A i \in Running : i = driver.task

\* The case of C25: a task was started and cancelled by on_disconnect, a
\* second one was started by the next on_connect while the first had not yet
\* ended, and a later setup completion has started none.
C25_SecondStartSkipped ==
    /\ driver.last = "setup"
    /\ driver.tasks = <<"cancelling", "running">>
    /\ driver.task = 2
    /\ Len(driver.clients) = 3

\* ----------------------------------------------------------------------- C23
\* C23: every backend that the setup flow puts in the enabled list is one of
\* the eight kinds and has a non-empty host in its saved configuration, for
\* every host text the user may submit.
C23_EnabledHasHost ==
    /\ \A i \in DOMAIN setup.enabled_apps :
          /\ setup.enabled_apps[i] \in Apps
          /\ setup.app_configs[setup.enabled_apps[i]].host # <<>>
    /\ \A k \in DOMAIN setup.saved : \A i \in DOMAIN setup.saved[k].enabled_apps :
          /\ setup.saved[k].enabled_apps[i] \in Apps
          /\ setup.saved[k].applications[setup.saved[k].enabled_apps[i]].host # <<>>

\* The case in which C23 fails: the user has typed "http://" as the host of
\* sabnzbd and has confirmed, and sabnzbd is saved as enabled with an empty
\* host.
C23_SchemeAloneSaved ==
    /\ setup.pc = "complete"
    /\ setup.request["sabnzbd"].host = Http
    /\ setup.saved[1].enabled_apps = <<"sabnzbd">>
    /\ setup.saved[1].applications["sabnzbd"].host = <<>>

\* ----------------------------------------------------------------------- C24
\* C24: a failed connection test never blocks setup: a DriverSetupRequest
\* that enables at least one backend with a non-blank host yields a request
\* for confirmation whatever the results of the connection tests, and on
\* confirmation every such backend, reachable or not, is saved as enabled
\* with its configuration (the file being writable).
C24_FailedTestNeverBlocks ==
    /\ setup.last = "request" /\ WithHost(setup.request) # {} =>
          /\ setup.pc = "confirm"
          /\ setup.enabled_apps = Ordered(WithHost(setup.request))
    /\ setup.last = "confirm" =>
          IF setup.writable
          THEN /\ setup.pc = "complete"
               /\ setup.saved[1].enabled_apps = Ordered(WithHost(setup.request))
               /\ \A a \in WithHost(setup.request) :
                     setup.saved[1].applications[a] = AppConfig(a, setup.request[a])
          ELSE setup.pc = "error"

\* The case of C24: both applications were enabled, both connection tests
\* failed, the user has confirmed, and both are saved as enabled.
C24_SavedThoughUnreachable ==
    /\ setup.pc = "complete"
    /\ setup.last = "confirm"
    /\ DOMAIN setup.connection_results = SetupApps
    /\ \A a \in SetupApps : setup.connection_results[a] = FALSE
    /\ setup.saved[1].enabled_apps = <<"sabnzbd", "sonarr">>

\* ----------------------------------------------------------------------- C31
\* the name, the speed and the remaining size of the queue answer of a call
JobName(n) == call.args[1] # <<>> /\ Get(call.args[1][1], "filename", Unknown) = n

JobSpeed(v, unit) == Get(call.args[2], "speed", NoText) = [value |-> v, unit |-> unit]

JobSizeLeft(v, unit) == Get(call.args[2], "sizeleft", NoText) = [value |-> v, unit |-> unit]

ShowS01E02 == <<"S","h","o","w",".","S","0","1","E","0","2",".","m","k","v">>

\* C31: for SABnzbd with a successful queue call, a queue with at least one
\* slot gives the primary line "Downloading: " + the first slot's filename
\* cut to 20 characters + " @ " + the reported speed + the computed ETA (the
\* job "Show.S01E02.mkv" at "5 MB/s" with "300 MB" left gives
\* "Downloading: Show.S01E02.mkv @ 5 MB/s (1m)"), and a queue without slots
\* gives "Queue idle".
C31_PrimaryLineOfQueue ==
    call.fn = "_update_sabnzbd_2row.primary_info" =>
        /\ call.args[1] = <<>> => call.result = "Queue idle"
        /\ \A name \in Filenames, speed \in JobQuantities, size_left \in JobQuantities :
             /\ JobName(name)
             /\ JobSpeed(speed.value, speed.unit)
             /\ JobSizeLeft(size_left.value, size_left.unit)
             => /\ call.result = "Downloading: " \o Str(SmartTruncate(name, 20)) \o " @ "
                                     \o SpeedText(speed) \o CalculateEta(size_left, speed)
                /\ Len(SmartTruncate(name, 20)) <= 20
        /\ JobName(ShowS01E02) /\ JobSpeed(5, "MB") /\ JobSizeLeft(300, "MB")
             => call.result = "Downloading: Show.S01E02.mkv @ 5 MB/s (1m)"

\* The case of C31: the queue has the job "Show.S01E02.mkv" at "5 MB/s" with
\* "300 MB" left and the primary line is the one of the scenario.
C31_ScenarioLine ==
    /\ call.fn = "_update_sabnzbd_2row.primary_info"
    /\ JobName(ShowS01E02) /\ JobSpeed(5, "MB") /\ JobSizeLeft(300, "MB")
    /\ call.result = "Downloading: Show.S01E02.mkv @ 5 MB/s (1m)"

\* ----------------------------------------------------------------------- C33
\* the place of the last slash or backslash of the text, 0 if it has none
LastSeparator(text) ==
    IF LastIndex(text, "/") > LastIndex(text, "\\") THEN LastIndex(text, "/")
    ELSE LastIndex(text, "\\")

\* the last segment of a path whose segments end at slashes and at single
\* backslashes alike
LastSegment(text) == From(text, LastSeparator(text))

WindowsPath ==
    <<"C", ":", "\\", "m", "e", "d", "i", "a", "\\", "f", "i", "l", "e", ".", "m", "k", "v">>

\* C33: _clean_file_path strips at most one matching root prefix of its
\* list, compared without regard to case, and then returns the last path
\* segment, splitting on forward slashes and equally on single backslashes,
\* so that C:\media\file.mkv yields file.mkv; an empty path yields "Unknown".
C33_LastSegmentOnEitherSlash ==
    call.fn = "_clean_file_path" =>
        /\ call.args[1] = <<>> => call.result = Unknown
        /\ call.args[1] # <<>> => call.result = LastSegment(RemovePrefix(call.args[1], 1))
        /\ call.args[1] = WindowsPath => Str(call.result) = "file.mkv"

\* The case in which C33 fails: _clean_file_path has returned the path
\* C:\media\file.mkv as it is.
C33_WindowsPathUnchanged ==
    /\ call.fn = "_clean_file_path"
    /\ call.args[1] = WindowsPath
    /\ call.result = WindowsPath
    /\ Str(call.result) = "C:\\media\\file.mkv"

\* ----------------------------------------------------------------------- C32
\* the items of a history answer that count: those of an answer with status
\* 200
ItemsOf(answer) == IF answer.status = 200 THEN answer.data ELSE <<>>

\* an item as a recent file is listed
Listed(item) == Str(SmartTruncate(CleanFilePath(FileInfo(item)), 30))

\* C32: for Bazarr after a well answered probe, the secondary line lists at
\* most 2 items, those of the episode history before those of the movie
\* history; the movie history is asked for only when the episode history
\* gave fewer than 2 items; a failure of either history request does not
\* take the backend offline; and the primary line is "Subtitle downloads
\* active" iff at least one item was collected, else "Subtitle manager idle".
C32_TwoItemsEpisodesFirst ==
    call.fn = "_update_bazarr_2row" =>
        \A pooled \in {ItemsOf(call.args[1]) \o ItemsOf(call.args[2])} :
            /\ call.result.st.secondary_info =
                   IF pooled = <<>> THEN "No recent downloads"
                   ELSE IF Len(pooled) = 1 THEN "Recent: " \o Listed(pooled[1])
                   ELSE "Recent: " \o Listed(pooled[1]) \o " | " \o Listed(pooled[2])
            /\ (\E i \in 1..Len(call.result.requests) : call.result.requests[i] = "movies")
                   <=> Len(ItemsOf(call.args[1])) < 2
            /\ call.result.requests[1] = "episodes"
            /\ call.result.st.is_online
            /\ call.result.ret
            /\ call.result.st.primary_info =
                   IF call.result.recent_downloads # <<>> THEN "Subtitle downloads active"
                   ELSE "Subtitle manager idle"
            /\ call.result.recent_downloads = <<>> <=> pooled = <<>>

\* The case of C32: the episode history has one item and the movie history
\* two, and the secondary line lists the episode and the first movie.
C32_EpisodeThenMovie ==
    /\ call.fn = "_update_bazarr_2row"
    /\ call.args[1].status = 200 /\ Len(call.args[1].data) = 1
    /\ call.args[2].status = 200 /\ Len(call.args[2].data) = 2
    /\ call.result.requests = <<"episodes", "movies">>
    /\ call.result.st.primary_info = "Subtitle downloads active"
    /\ call.result.st.secondary_info = "Recent: Show (en) | Film"

\* ----------------------------------------------------------------------- C34
\* no update_all_statuses is in flight on the client
NoPollInFlight ==
    /\ poll.pc # "gather"
    /\ call.fn = "handle_command" => call.poll.pc # "gather"

\* the secondary lines that a well answered history call leaves
RecentLines == {FormatRecentFiles(n) : n \in 0..2}

\* C34: at most one poll cycle is in flight on a client at any time (the poll
\* of the monitoring loop's push_update and the poll of a SELECT_SOURCE
\* command's forced update never overlap), so that after all operations in
\* flight have finished each record's online flag, primary and secondary
\* line come from one single fetch of that backend: never online = false and
\* "Connection Error" together with a "Recent: ..." line of another fetch.
C34_OnePollInFlight ==
    /\ ~(poll.pc = "gather" /\ call.fn = "handle_command" /\ call.poll.pc = "gather")
    /\ NoPollInFlight =>
           \A a \in DOMAIN app_statuses :
               ~app_statuses[a].is_online => app_statuses[a].secondary_info \notin RecentLines

\* The case in which C34 fails: the polls of the loop and of the command
\* have both returned, one of them having got a connection error on the queue
\* call and the other a history, and the record of SABnzbd is offline with
\* "Connection Error" and the recent files of the other poll.
C34_MixedRecord ==
    /\ NoPollInFlight
    /\ poll.pc = "returned"
    /\ call.fn = "handle_command"
    /\ "sabnzbd" \in DOMAIN app_statuses
    /\ ~app_statuses["sabnzbd"].is_online
    /\ app_statuses["sabnzbd"].primary_info = "Connection Error"
    /\ app_statuses["sabnzbd"].secondary_info = "Recent: a | b"

\* ----------------------------------------------------------------------- C35
\* C35: a setup run that ends in SetupError or AbortDriverSetup leaves the
\* configuration that the running client sees as it was: in particular when
\* save_config fails in _save_configuration, the enabled list and the
\* settings of the backends that the running client and the monitoring loop
\* read are those of before the setup run.
C35_FailedSetupLeavesConfiguration ==
    [][setup' # setup /\ setup'.pc \in {"error", "aborted"}
           => config' = config /\ setup'.config = setup.config]_vars

\* The case in which C35 fails: the user has confirmed, the configuration
\* could not be written and the flow has ended in SetupError; nothing is
\* saved, and the client, which had no application enabled, reads the
\* enabled list of the failed run.
C35_FailedSaveChangedConfiguration ==
    /\ setup.pc = "error"
    /\ setup.last = "confirm"
    /\ ~setup.writable
    /\ setup.saved = <<>>
    /\ setup.config.enabled_apps = <<"sabnzbd", "sonarr">>
    /\ config.enabled_apps = {"sabnzbd", "sonarr"}

\* ----------------------------------------------------------------------- C36
\* C36: the setup flow changes the configuration only on confirmation.
\* Handling a DriverSetupRequest never changes the configuration object or
\* its file: it stores the pending choices and asks for confirmation, or
\* gives SetupError when no backend was enabled with a host. A
\* UserConfirmationResponse with confirm = false gives AbortDriverSetup and
\* leaves the configuration as it was.
C36_ChangedOnConfirmationOnly ==
    [][/\ setup'.flows # setup.flows =>
            /\ config' = config
            /\ setup'.config = setup.config
            /\ setup'.saved = setup.saved
            /\ IF WithHost(setup'.request) = {} THEN setup'.pc = "error"
               ELSE /\ setup'.pc = "confirm"
                    /\ setup'.enabled_apps = Ordered(WithHost(setup'.request))
                    /\ DOMAIN setup'.app_configs = WithHost(setup'.request)
       /\ setup' # setup /\ setup'.last = "decline" =>
            /\ setup'.pc = "aborted"
            /\ config' = config
            /\ setup'.config = setup.config
            /\ setup'.saved = setup.saved]_vars

\* The case of C36: a request has stored its choices, the user has declined,
\* and the configuration in memory and on disk is the empty one of the start.
C36_DeclinedNothingChanged ==
    /\ setup.pc = "aborted"
    /\ setup.last = "decline"
    /\ setup.enabled_apps # <<>>
    /\ setup.config = NoSetup.config
    /\ setup.saved = <<>>
    /\ config.enabled_apps = {}

\* ----------------------------------------------------------------------- C37
\* C37: the setup handler drops its setup manager after every terminal
\* action (SetupComplete, AbortDriverSetup, SetupError), so a confirming
\* UserConfirmationResponse that no DriverSetupRequest of the current run
\* precedes gives SetupError, raises nothing and leaves the configuration as
\* it was; the choices stored by an earlier run that has ended are never
\* saved.
C37_StrayConfirmationSavesNothing ==
    [][/\ setup.pc # "confirm" /\ setup'.last \in {"confirm", "stray"} /\ setup' # setup =>
            /\ setup'.pc = "error"
            /\ config' = config
            /\ setup'.config = setup.config
            /\ setup'.saved = setup.saved
       /\ setup'.saved # setup.saved \/ setup'.config # setup.config =>
            setup.pc = "confirm" /\ setup.last = "request"]_vars

\* The case of C37: a run has stored choices and was declined, a confirming
\* response without a new request has come, and it ended in SetupError with
\* nothing saved.
C37_StrayAfterDecline ==
    /\ setup.pc = "error"
    /\ setup.last = "stray"
    /\ setup.enabled_apps # <<>>
    /\ setup.config = NoSetup.config
    /\ setup.saved = <<>>
    /\ config.enabled_apps = {}

\* ----------------------------------------------------------------------- C39
\* C39: a client holds at most one open session at a time and disconnect is
\* idempotent: connect on a client that has a session reuses it and creates
\* no second one; disconnect closes the session if there is one, clears it
\* and sets is_connected to false; a second disconnect closes nothing;
\* connect after disconnect creates a new session.
C39_OneSessionAtATime ==
    [][clock' # clock =>
         \A c \in {driver.clients[1]}, d \in {driver'.clients[1]} :
            /\ d.opens - d.closes = IF d.session = "open" THEN 1 ELSE 0
            /\ driver'.last = "connect" =>
                 /\ d.session = "open"
                 /\ d.opens = IF c.session = "open" THEN c.opens ELSE c.opens + 1
                 /\ d.closes = c.closes
            /\ driver'.last = "disconnect" =>
                 /\ d.session # "open"
                 /\ ~d.is_connected
                 /\ d.opens = c.opens
                 /\ d.closes = IF c.session = "open" THEN c.closes + 1 ELSE c.closes
                 /\ Disconnected(d) = d]_vars

\* The case of C39: five calls were made on the client, two sessions were
\* created and both were closed, so that one of the calls was a connect that
\* used the session there was or a disconnect that found none.
C39_TwoSessionsInFiveCalls ==
    /\ clock = 5
    /\ Len(driver.clients) = 1
    /\ driver.last = "disconnect"
    /\ driver.clients[1].opens = 2
    /\ driver.clients[1].closes = 2
    /\ driver.clients[1].session # "open"
    /\ ~driver.clients[1].is_connected

\* ----------------------------------------------------------------------- C38
\* a step in which update_all_statuses is called on a client without a
\* session
PollWithoutSession == session = "none" /\ session' = "none" /\ clock' # clock

\* C38: update_all_statuses called while the client has no open session
\* (before the first connect, or after disconnect) returns false, issues no
\* HTTP request, starts no task and leaves every record and the status map
\* unchanged.
C38_NoSessionNoEffect ==
    [][PollWithoutSession =>
          /\ poll'.pc = "returned"
          /\ poll'.result = "False"
          /\ poll'.tasks = <<>>
          /\ created' = created
          /\ log' = log
          /\ app_statuses' = app_statuses
          /\ is_connected' = is_connected]_vars

\* The case of C38: the client was connected and disconnected, it has
\* records, and the update_all_statuses called after that has returned
\* False without a task.
C38_PolledAfterDisconnect ==
    /\ session = "none"
    /\ app_statuses # <<>>
    /\ poll.pc = "returned"
    /\ ~poll.had_session
    /\ poll.result = "False"
    /\ poll.tasks = <<>>
    /\ created = 0

\* ----------------------------------------------------------------------- C40
\* handle_command has returned OK for the command
Handled(c, cmd_id) == c.fn = "handle_command" /\ c.args = <<cmd_id>> /\ c.result = "OK"

\* C40: after the OFF command has been handled on a configured entity, the
\* STATE attribute is STANDBY, and it stays STANDBY through the later cycles
\* of the monitoring loop until an ON command is handled; after the ON
\* command the state is ON.
C40_StandbyUntilOn ==
    [][/\ Handled(call', "off") => monitor'.state = "STANDBY"
       /\ Handled(call', "on") /\ call' # call => monitor'.state = "ON"
       /\ monitor.state = "STANDBY" /\ monitor'.state # "STANDBY" =>
            call'.fn = "handle_command" /\ call'.args = <<"on">>]_vars

\* The case in which C40 fails: handle_command has returned OK for the OFF
\* command and the STATE attribute is ON.
C40_OnAfterOff ==
    /\ Handled(call, "off")
    /\ monitor.state = "ON"

====
